---- MODULE Spec2Model ----
(***************************************************************************)
(* Model of the paper-trading engine of polybot                            *)
(* (src/src/engines/paperTrader.js, class PaperTrader) with the            *)
(* configuration of src/src/config.js.                                     *)
(*                                                                         *)
(* Numbers.  JavaScript doubles are modelled by fixed-point integers:      *)
(*   money and share counts in 1/MoneyScale (milli-dollars, milli-shares), *)
(*   prices and quotes in 1/PriceScale (0.50 is 5000, a cents-scale quote  *)
(*   of 50 is 500000), probabilities in percent, times in seconds.         *)
(* Divisions truncate (\div).  ROI thresholds are compared exactly by      *)
(* cross-multiplication.                                                   *)
(***************************************************************************)
EXTENDS Integers, Sequences, FiniteSets, TLC

VARIABLES
    state,      \* this.state, the in-memory ledger
    disk,       \* the state file: <<>> when absent, else <<document>>
    now,        \* Date.now(), in seconds
    input,      \* the arguments of the most recent update() call
    log,        \* rows handed to logPaperTradeToDb by the most recent update()
    calls,      \* update() calls suspended at an await (asynchronous runs only)
    outcome,    \* how the most recent update() ended: "none", "returned", "threw", "pending"
    aux         \* bookkeeping: object identities, save count, running sums

vars == <<state, disk, now, input, log, calls, outcome, aux>>

----------------------------------------------------------------------------
(* Scales and JavaScript's null / undefined.                               *)

MoneyScale == 1000
PriceScale == 10000
NULL == -1
UNDEFINED == -2

(* CONFIG.paper, src/src/config.js lines 86-107.                           *)
FeePct == 2
StopLossRoiPct == 20
KellyFractionInv == 4              \* kellyFraction: 0.25
MinBet == 5000                     \* minBet: 5
MaxBet == 10000                    \* maxBet: 10
CooldownMinutes == 2
EntryCooldownSeconds == 15
MaxConcurrentPositions == 2
DailyLossLimit == 100000           \* dailyLossLimit: 100.0
MaxConsecutiveLosses == 2          \* PAPER_MAX_CONSECUTIVE_LOSSES=2 (default 5)
MinEntryPrice == 4000              \* minEntryPrice: 0.40
MaxEntryPrice == 6000              \* maxEntryPrice: 0.60
StopLossGracePeriodSeconds == 15

(* Literals of paperTrader.js.                                             *)
BreakevenTriggerRoiPct == 30
HalfTimeThresholdTenths == 75      \* timeLeftMin <= 7.5, minutes in tenths
EarlyTakeProfitPrice == 9200       \* normPrice >= 0.92
EarlyTakeProfitRoiPct == 80
CentsThreshold == 10500            \* price > 1.05
RecentResultsKept == 10            \* slice(-10)

(* Bounds of the exploration.                                              *)
MaxTicks == 4
MaxCalls == 2

SecondsPerDay == 86400
StartTime == 1000

----------------------------------------------------------------------------
(* Small helpers.                                                          *)

Abs(x) == IF x < 0 THEN 0 - x ELSE x

LastN(s, n) == IF Len(s) <= n THEN s ELSE SubSeq(s, Len(s) - n + 1, Len(s))

SelectIdNot(s, id) == SelectSeq(s, LAMBDA p : p.id # id)

(* Date.prototype.getUTCDate: the day of the month.  Time 0 is             *)
(* 1970-01-01T00:00:00Z; the horizon covers January to March 1970.         *)
getUTCDate(t) ==
    LET d == t \div SecondsPerDay IN
    IF d < 31 THEN d + 1
    ELSE IF d < 59 THEN d - 30
    ELSE d - 58

(* A normalization that takes a quote of exactly 1 for a cents-scale       *)
(* quote.                                                                  *)
NormalizePriceFromOne(price) ==
    IF price >= PriceScale THEN price \div 100 ELSE price

(* price > 1.05 ? price / 100 : price                                      *)
NormalizePrice(price) ==
    IF price > CentsThreshold THEN price \div 100 ELSE price

(* entryPrice > 1 ? entryPrice / 100 : entryPrice                          *)
NormalizeEntryPrice(entryPrice) ==
    IF entryPrice > PriceScale THEN entryPrice \div 100 ELSE entryPrice

(* A close reason is a string built by a template literal: head is the     *)
(* fixed prefix, tail the interpolated remainder ("" when there is none).  *)
Reason(head, tail) == [head |-> head, tail |-> tail]

ReasonIs(reason, s) == reason.head = s /\ reason.tail = ""

ReasonIncludesStopLoss(reason) ==
    reason.head \in {"STOP_LOSS", "STOP_LOSS_BREAKEVEN"}

ExpiryReason == Reason("EXPIRY", " (Spot: s, Strike: k)")

----------------------------------------------------------------------------
(* The ledger.  A world W is [state, disk, log, aux]: the ledger, the      *)
(* persisted document, the trade-log rows of the current update() and the  *)
(* bookkeeping.                                                            *)

defaultState ==
    [ balance           |-> 0,
      positions         |-> <<>>,
      dailyLoss         |-> 0,
      lastStopLossTime  |-> 0,
      recentResults     |-> <<>>,
      lastDailyReset    |-> StartTime,
      lastExitTime      |-> 0,
      lastEntryTime     |-> 0,
      consecutiveLosses |-> 0 ]

(* saveState(): write this.state to the state file.                        *)
saveState(W) ==
    [W EXCEPT !.disk = <<W.state>>, !.aux.saves = @ + 1]

(* logTrade(): the row handed to logPaperTradeToDb; pos and credit are     *)
(* bookkeeping (the position object as it was, the change of balance).     *)
logTrade(W, action, side, price, amount, shares, pnl, marketSlug, fee, pos, credit) ==
    [W EXCEPT !.log = Append(@,
        [ action |-> action, side |-> side, price |-> price, amount |-> amount,
          shares |-> shares, pnl |-> pnl, balance |-> W.state.balance,
          market_slug |-> marketSlug, fee |-> fee, pos |-> pos, credit |-> credit ])]

(* resetDailyLossIfNeeded()                                                *)
resetDailyLossIfNeeded(W, t) ==
    IF getUTCDate(W.state.lastDailyReset) # getUTCDate(t)
    THEN saveState([W EXCEPT !.state.dailyLoss = 0, !.state.lastDailyReset = t])
    ELSE W

(* closePosition() up to and including the call of logTrade (lines         *)
(* 205-232): proceeds, fee, pnl, credit, counters.                         *)
closeProceeds(pos, exitPrice) ==
    (pos.shares * NormalizePrice(exitPrice)) \div PriceScale

closeFee(pos, exitPrice, reason) ==
    IF ~ReasonIs(reason, "EXPIRY") /\ ~ReasonIs(reason, "SETTLE")
    THEN (closeProceeds(pos, exitPrice) * FeePct) \div 100
    ELSE 0

(* A close that books losses only: a winning close leaves dailyLoss alone.  *)
closePositionBeginGrossLoss(W, pos, exitPrice, reason, t) ==
    LET fee      == closeFee(pos, exitPrice, reason)
        proceeds == closeProceeds(pos, exitPrice) - fee
        pnl      == proceeds - pos.amount
        st       == W.state
        st1      == [st EXCEPT !.balance = @ + proceeds]
        st2      == IF pnl < 0
                    THEN [st1 EXCEPT
                            !.dailyLoss = @ + Abs(pnl),
                            !.recentResults = LastN(Append(@, "LOSS"), RecentResultsKept),
                            !.lastStopLossTime =
                                IF ReasonIncludesStopLoss(reason) THEN t ELSE @,
                            !.consecutiveLosses = @ + 1]
                    ELSE [st1 EXCEPT
                            !.recentResults = LastN(Append(@, "WIN"), RecentResultsKept),
                            !.consecutiveLosses = 0]
        W1       == [W EXCEPT !.state = st2,
                              !.aux.sumCloses = @ + proceeds,
                              !.aux.closed = Append(@, pos.id)]
    IN logTrade(W1, reason, pos.side, exitPrice, pos.amount, pos.shares, pnl,
                pos.marketSlug, fee, pos, proceeds)

(* A close whose winning branch leaves the losing streak as it is.         *)
closePositionBeginStreakKept(W, pos, exitPrice, reason, t) ==
    LET fee      == closeFee(pos, exitPrice, reason)
        proceeds == closeProceeds(pos, exitPrice) - fee
        pnl      == proceeds - pos.amount
        st       == W.state
        st1      == [st EXCEPT !.balance = @ + proceeds]
        st2      == IF pnl < 0
                    THEN [st1 EXCEPT
                            !.dailyLoss = @ + Abs(pnl),
                            !.recentResults = LastN(Append(@, "LOSS"), RecentResultsKept),
                            !.lastStopLossTime =
                                IF ReasonIncludesStopLoss(reason) THEN t ELSE @,
                            !.consecutiveLosses = @ + 1]
                    ELSE [st1 EXCEPT
                            !.dailyLoss = @ - pnl,
                            !.recentResults = LastN(Append(@, "WIN"), RecentResultsKept)]
        W1       == [W EXCEPT !.state = st2,
                              !.aux.sumCloses = @ + proceeds,
                              !.aux.closed = Append(@, pos.id)]
    IN logTrade(W1, reason, pos.side, exitPrice, pos.amount, pos.shares, pnl,
                pos.marketSlug, fee, pos, proceeds)

closePositionBegin(W, pos, exitPrice, reason, t) ==
    LET fee      == closeFee(pos, exitPrice, reason)
        proceeds == closeProceeds(pos, exitPrice) - fee
        pnl      == proceeds - pos.amount
        st       == W.state
        st1      == [st EXCEPT !.balance = @ + proceeds]
        st2      == IF pnl < 0
                    THEN [st1 EXCEPT
                            !.dailyLoss = @ + Abs(pnl),
                            !.recentResults = LastN(Append(@, "LOSS"), RecentResultsKept),
                            !.lastStopLossTime =
                                IF ReasonIncludesStopLoss(reason) THEN t ELSE @,
                            !.consecutiveLosses = @ + 1]
                    ELSE [st1 EXCEPT
                            !.dailyLoss = @ - pnl,
                            !.recentResults = LastN(Append(@, "WIN"), RecentResultsKept),
                            !.consecutiveLosses = 0]
        W1       == [W EXCEPT !.state = st2,
                              !.aux.sumCloses = @ + proceeds,
                              !.aux.closed = Append(@, pos.id)]
    IN logTrade(W1, reason, pos.side, exitPrice, pos.amount, pos.shares, pnl,
                pos.marketSlug, fee, pos, proceeds)

(* A close whose second half stamps lastExitTime and saves but leaves the  *)
(* position in positions.                                                  *)
closePositionEndNotRemoved(W, pos, t) ==
    saveState([W EXCEPT !.state.lastExitTime = t])

(* closePosition() after the await of logTrade (lines 234-254): remove     *)
(* the object from positions, stamp lastExitTime, save.                    *)
closePositionEnd(W, pos, t) ==
    saveState([W EXCEPT !.state.positions = SelectIdNot(@, pos.id),
                        !.state.lastExitTime = t])

(* ROI% of a normalized price against the entry price, as a fraction       *)
(* num / den with den = entryPrice; compared by cross-multiplication.      *)
RoiPctNum(normPrice, entryPrice) == (normPrice - entryPrice) * 100

RoiPctGE(normPrice, entryPrice, k) == RoiPctNum(normPrice, entryPrice) >= k * entryPrice
RoiPctLE(normPrice, entryPrice, k) == RoiPctNum(normPrice, entryPrice) <= k * entryPrice
RoiPctLT(normPrice, entryPrice, k) == RoiPctNum(normPrice, entryPrice) < k * entryPrice

SidePrice(side, in) == IF side = "UP" THEN in.up ELSE in.down

----------------------------------------------------------------------------
(* checkExitConditions, the decision for one position (lines 113-168).     *)
(* The result says whether the position is armed by this evaluation and    *)
(* whether it is closed, at which exit price and for which reason.         *)

NoExit(arm) == [arm |-> arm, close |-> FALSE, price |-> NULL, reason |-> Reason("", "")]

DoExit(arm, price, reason) == [arm |-> arm, close |-> TRUE, price |-> price, reason |-> reason]

(* Number(timeLeftMin) as the comparison timeLeftMin <= 7.5 coerces it.    *)
ToNumber(x) == IF x = NULL THEN 0 ELSE x

(* An exit cascade without the ROI branch of the early take-profit.        *)
ExitDecisionNoRoiTakeProfit(pos, in, t) ==
    LET price     == SidePrice(pos.side, in)
        normPrice == NormalizePrice(price)
        e         == pos.entryPrice
        arm       == RoiPctGE(normPrice, e, BreakevenTriggerRoiPct) /\ ~pos.hitBreakevenTrigger
        armed     == pos.hitBreakevenTrigger \/ arm
    IN
    IF pos.marketSlug # in.market THEN NoExit(FALSE)
    ELSE IF price = NULL \/ price = UNDEFINED THEN NoExit(FALSE)
    ELSE IF RoiPctLE(normPrice, e, 0 - StopLossRoiPct) THEN
        IF t - pos.entryTime < StopLossGracePeriodSeconds THEN NoExit(arm)
        ELSE IF armed /\ RoiPctLT(normPrice, e, 0)
             THEN DoExit(arm, e, Reason("STOP_LOSS_BREAKEVEN", " (Locked Entry)"))
             ELSE DoExit(arm, price, Reason("STOP_LOSS", " (roi%)"))
    ELSE IF armed /\ RoiPctLE(normPrice, e, 0)
        THEN DoExit(arm, e, Reason("STOP_LOSS_BREAKEVEN", " (Protection)"))
    ELSE IF in.timeLeftMin # UNDEFINED /\ ToNumber(in.timeLeftMin) <= HalfTimeThresholdTenths
            /\ RoiPctLT(normPrice, e, 0)
        THEN DoExit(arm, price, Reason("HALF_TIME_EXIT", " (roi%)"))
    ELSE IF normPrice >= EarlyTakeProfitPrice
        THEN DoExit(arm, price, Reason("TAKE_PROFIT_92", " (Lock Win)"))
    ELSE NoExit(arm)

(* An exit cascade without the breakeven lock: an armed position is        *)
(* stopped out and half-timed at the market price like an unarmed one.     *)
ExitDecisionNoLock(pos, in, t) ==
    LET price     == SidePrice(pos.side, in)
        normPrice == NormalizePrice(price)
        e         == pos.entryPrice
        arm       == RoiPctGE(normPrice, e, BreakevenTriggerRoiPct) /\ ~pos.hitBreakevenTrigger
    IN
    IF pos.marketSlug # in.market THEN NoExit(FALSE)
    ELSE IF price = NULL \/ price = UNDEFINED THEN NoExit(FALSE)
    ELSE IF RoiPctLE(normPrice, e, 0 - StopLossRoiPct) THEN
        IF t - pos.entryTime < StopLossGracePeriodSeconds THEN NoExit(arm)
        ELSE DoExit(arm, price, Reason("STOP_LOSS", " (roi%)"))
    ELSE IF in.timeLeftMin # UNDEFINED /\ ToNumber(in.timeLeftMin) <= HalfTimeThresholdTenths
            /\ RoiPctLT(normPrice, e, 0)
        THEN DoExit(arm, price, Reason("HALF_TIME_EXIT", " (roi%)"))
    ELSE IF normPrice >= EarlyTakeProfitPrice
        THEN DoExit(arm, price, Reason("TAKE_PROFIT_92", " (Lock Win)"))
    ELSE IF RoiPctGE(normPrice, e, EarlyTakeProfitRoiPct)
        THEN DoExit(arm, price, Reason("TAKE_PROFIT_ROI_80", " (+roi%)"))
    ELSE NoExit(arm)

(* An exit cascade without the test for a missing quote: null and         *)
(* undefined are compared like numbers below every threshold.              *)
ExitDecisionMissingQuoteCompared(pos, in, t) ==
    LET price     == SidePrice(pos.side, in)
        normPrice == NormalizePrice(price)
        e         == pos.entryPrice
        arm       == RoiPctGE(normPrice, e, BreakevenTriggerRoiPct) /\ ~pos.hitBreakevenTrigger
        armed     == pos.hitBreakevenTrigger \/ arm
    IN
    IF pos.marketSlug # in.market THEN NoExit(FALSE)
    ELSE IF RoiPctLE(normPrice, e, 0 - StopLossRoiPct) THEN
        IF t - pos.entryTime < StopLossGracePeriodSeconds THEN NoExit(arm)
        ELSE IF armed /\ RoiPctLT(normPrice, e, 0)
             THEN DoExit(arm, e, Reason("STOP_LOSS_BREAKEVEN", " (Locked Entry)"))
             ELSE DoExit(arm, price, Reason("STOP_LOSS", " (roi%)"))
    ELSE IF armed /\ RoiPctLE(normPrice, e, 0)
        THEN DoExit(arm, e, Reason("STOP_LOSS_BREAKEVEN", " (Protection)"))
    ELSE IF in.timeLeftMin # UNDEFINED /\ ToNumber(in.timeLeftMin) <= HalfTimeThresholdTenths
            /\ RoiPctLT(normPrice, e, 0)
        THEN DoExit(arm, price, Reason("HALF_TIME_EXIT", " (roi%)"))
    ELSE IF normPrice >= EarlyTakeProfitPrice
        THEN DoExit(arm, price, Reason("TAKE_PROFIT_92", " (Lock Win)"))
    ELSE IF RoiPctGE(normPrice, e, EarlyTakeProfitRoiPct)
        THEN DoExit(arm, price, Reason("TAKE_PROFIT_ROI_80", " (+roi%)"))
    ELSE NoExit(arm)

(* An exit cascade whose hard stop loss ignores the grace period.           *)
ExitDecisionNoGrace(pos, in, t) ==
    LET price     == SidePrice(pos.side, in)
        normPrice == NormalizePrice(price)
        e         == pos.entryPrice
        arm       == RoiPctGE(normPrice, e, BreakevenTriggerRoiPct) /\ ~pos.hitBreakevenTrigger
        armed     == pos.hitBreakevenTrigger \/ arm
    IN
    IF pos.marketSlug # in.market THEN NoExit(FALSE)
    ELSE IF price = NULL \/ price = UNDEFINED THEN NoExit(FALSE)
    ELSE IF RoiPctLE(normPrice, e, 0 - StopLossRoiPct) THEN
        IF armed /\ RoiPctLT(normPrice, e, 0)
        THEN DoExit(arm, e, Reason("STOP_LOSS_BREAKEVEN", " (Locked Entry)"))
        ELSE DoExit(arm, price, Reason("STOP_LOSS", " (roi%)"))
    ELSE IF armed /\ RoiPctLE(normPrice, e, 0)
        THEN DoExit(arm, e, Reason("STOP_LOSS_BREAKEVEN", " (Protection)"))
    ELSE IF in.timeLeftMin # UNDEFINED /\ ToNumber(in.timeLeftMin) <= HalfTimeThresholdTenths
            /\ RoiPctLT(normPrice, e, 0)
        THEN DoExit(arm, price, Reason("HALF_TIME_EXIT", " (roi%)"))
    ELSE IF normPrice >= EarlyTakeProfitPrice
        THEN DoExit(arm, price, Reason("TAKE_PROFIT_92", " (Lock Win)"))
    ELSE IF RoiPctGE(normPrice, e, EarlyTakeProfitRoiPct)
        THEN DoExit(arm, price, Reason("TAKE_PROFIT_ROI_80", " (+roi%)"))
    ELSE NoExit(arm)

ExitDecision(pos, in, t) ==
    LET price     == SidePrice(pos.side, in)
        normPrice == NormalizePrice(price)
        e         == pos.entryPrice
        arm       == RoiPctGE(normPrice, e, BreakevenTriggerRoiPct) /\ ~pos.hitBreakevenTrigger
        armed     == pos.hitBreakevenTrigger \/ arm
    IN
    IF pos.marketSlug # in.market THEN NoExit(FALSE)
    ELSE IF price = NULL \/ price = UNDEFINED THEN NoExit(FALSE)
    ELSE IF RoiPctLE(normPrice, e, 0 - StopLossRoiPct) THEN
        IF t - pos.entryTime < StopLossGracePeriodSeconds THEN NoExit(arm)
        ELSE IF armed /\ RoiPctLT(normPrice, e, 0)
             THEN DoExit(arm, e, Reason("STOP_LOSS_BREAKEVEN", " (Locked Entry)"))
             ELSE DoExit(arm, price, Reason("STOP_LOSS", " (roi%)"))
    ELSE IF armed /\ RoiPctLE(normPrice, e, 0)
        THEN DoExit(arm, e, Reason("STOP_LOSS_BREAKEVEN", " (Protection)"))
    ELSE IF in.timeLeftMin # UNDEFINED /\ ToNumber(in.timeLeftMin) <= HalfTimeThresholdTenths
            /\ RoiPctLT(normPrice, e, 0)
        THEN DoExit(arm, price, Reason("HALF_TIME_EXIT", " (roi%)"))
    ELSE IF normPrice >= EarlyTakeProfitPrice
        THEN DoExit(arm, price, Reason("TAKE_PROFIT_92", " (Lock Win)"))
    ELSE IF RoiPctGE(normPrice, e, EarlyTakeProfitRoiPct)
        THEN DoExit(arm, price, Reason("TAKE_PROFIT_ROI_80", " (+roi%)"))
    ELSE NoExit(arm)

(* A payout that settles a spot exactly at the strike against UP.          *)
ExpiryPayoutStrict(side, in) ==
    IF side = "UP" THEN (IF in.spotPrice > in.strikePrice THEN PriceScale ELSE 0)
    ELSE IF side = "DOWN" THEN (IF in.spotPrice <= in.strikePrice THEN PriceScale ELSE 0)
    ELSE 0

(* checkResolution: the payout of one position (lines 179-184).            *)
ExpiryPayout(side, in) ==
    IF side = "UP" THEN (IF in.spotPrice >= in.strikePrice THEN PriceScale ELSE 0)
    ELSE IF side = "DOWN" THEN (IF in.spotPrice < in.strikePrice THEN PriceScale ELSE 0)
    ELSE 0

(* rec.strikePrice || null, rec.spotPrice || null, rec.isExpired || false  *)
OrNull(x) == IF x = NULL \/ x = UNDEFINED \/ x = 0 THEN NULL ELSE x

(* A settlement that runs on the isExpired flag alone.                     *)
ResolutionAppliesOnFlag(in) == in.isExpired

ResolutionApplies(in) ==
    in.isExpired /\ OrNull(in.strikePrice) # NULL /\ OrNull(in.spotPrice) # NULL

----------------------------------------------------------------------------
(* handleEntrySignal: the filters (lines 261-332), in the code's order.    *)
(* this.state.position is a field this class never assigns, so the         *)
(* duplicate-position guard of lines 283-287 reads undefined.              *)

statePosition(st) == UNDEFINED

Falsy(x) == x = NULL \/ x = UNDEFINED \/ x = 0

(* The filters without the circuit breaker.                                *)
EntryGateNoBreaker(st, in, t) ==
    LET entryPrice      == SidePrice(in.side, in)
        normalizedPrice == NormalizeEntryPrice(entryPrice)
    IN
    IF Falsy(entryPrice) \/ entryPrice <= 0 \/ entryPrice >= PriceScale THEN "price"
    ELSE IF normalizedPrice < MinEntryPrice \/ normalizedPrice > MaxEntryPrice THEN "band"
    ELSE IF statePosition(st) # UNDEFINED THEN "duplicate"
    ELSE IF st.dailyLoss >= DailyLossLimit THEN "dailyLoss"
    ELSE IF st.lastStopLossTime # 0 /\ t - st.lastStopLossTime < CooldownMinutes * 60 THEN "cooldown"
    ELSE IF st.lastEntryTime # 0 /\ t - st.lastEntryTime < EntryCooldownSeconds THEN "debounce"
    ELSE IF in.trend = "FALLING" /\ in.side = "UP" THEN "trend"
    ELSE IF in.trend = "RISING" /\ in.side = "DOWN" THEN "trend"
    ELSE "pass"

(* The filters without the price band.                                     *)
EntryGateNoBand(st, in, t) ==
    LET entryPrice      == SidePrice(in.side, in)
        normalizedPrice == NormalizeEntryPrice(entryPrice)
    IN
    IF Falsy(entryPrice) \/ entryPrice <= 0 \/ entryPrice >= PriceScale THEN "price"
    ELSE IF st.consecutiveLosses >= MaxConsecutiveLosses THEN "breaker"
    ELSE IF statePosition(st) # UNDEFINED THEN "duplicate"
    ELSE IF st.dailyLoss >= DailyLossLimit THEN "dailyLoss"
    ELSE IF st.lastStopLossTime # 0 /\ t - st.lastStopLossTime < CooldownMinutes * 60 THEN "cooldown"
    ELSE IF st.lastEntryTime # 0 /\ t - st.lastEntryTime < EntryCooldownSeconds THEN "debounce"
    ELSE IF in.trend = "FALLING" /\ in.side = "UP" THEN "trend"
    ELSE IF in.trend = "RISING" /\ in.side = "DOWN" THEN "trend"
    ELSE "pass"

(* The filters without the stop-loss cooldown.                             *)
EntryGateNoCooldown(st, in, t) ==
    LET entryPrice      == SidePrice(in.side, in)
        normalizedPrice == NormalizeEntryPrice(entryPrice)
    IN
    IF Falsy(entryPrice) \/ entryPrice <= 0 \/ entryPrice >= PriceScale THEN "price"
    ELSE IF normalizedPrice < MinEntryPrice \/ normalizedPrice > MaxEntryPrice THEN "band"
    ELSE IF st.consecutiveLosses >= MaxConsecutiveLosses THEN "breaker"
    ELSE IF statePosition(st) # UNDEFINED THEN "duplicate"
    ELSE IF st.dailyLoss >= DailyLossLimit THEN "dailyLoss"
    ELSE IF st.lastEntryTime # 0 /\ t - st.lastEntryTime < EntryCooldownSeconds THEN "debounce"
    ELSE IF in.trend = "FALLING" /\ in.side = "UP" THEN "trend"
    ELSE IF in.trend = "RISING" /\ in.side = "DOWN" THEN "trend"
    ELSE "pass"

(* The filters without the entry debounce.                                 *)
EntryGateNoDebounce(st, in, t) ==
    LET entryPrice      == SidePrice(in.side, in)
        normalizedPrice == NormalizeEntryPrice(entryPrice)
    IN
    IF Falsy(entryPrice) \/ entryPrice <= 0 \/ entryPrice >= PriceScale THEN "price"
    ELSE IF normalizedPrice < MinEntryPrice \/ normalizedPrice > MaxEntryPrice THEN "band"
    ELSE IF st.consecutiveLosses >= MaxConsecutiveLosses THEN "breaker"
    ELSE IF statePosition(st) # UNDEFINED THEN "duplicate"
    ELSE IF st.dailyLoss >= DailyLossLimit THEN "dailyLoss"
    ELSE IF st.lastStopLossTime # 0 /\ t - st.lastStopLossTime < CooldownMinutes * 60 THEN "cooldown"
    ELSE IF in.trend = "FALLING" /\ in.side = "UP" THEN "trend"
    ELSE IF in.trend = "RISING" /\ in.side = "DOWN" THEN "trend"
    ELSE "pass"

(* The filters without the trend filter.                                   *)
EntryGateNoTrend(st, in, t) ==
    LET entryPrice      == SidePrice(in.side, in)
        normalizedPrice == NormalizeEntryPrice(entryPrice)
    IN
    IF Falsy(entryPrice) \/ entryPrice <= 0 \/ entryPrice >= PriceScale THEN "price"
    ELSE IF normalizedPrice < MinEntryPrice \/ normalizedPrice > MaxEntryPrice THEN "band"
    ELSE IF st.consecutiveLosses >= MaxConsecutiveLosses THEN "breaker"
    ELSE IF statePosition(st) # UNDEFINED THEN "duplicate"
    ELSE IF st.dailyLoss >= DailyLossLimit THEN "dailyLoss"
    ELSE IF st.lastStopLossTime # 0 /\ t - st.lastStopLossTime < CooldownMinutes * 60 THEN "cooldown"
    ELSE IF st.lastEntryTime # 0 /\ t - st.lastEntryTime < EntryCooldownSeconds THEN "debounce"
    ELSE "pass"

EntryGate(st, in, t) ==
    LET entryPrice      == SidePrice(in.side, in)
        normalizedPrice == NormalizeEntryPrice(entryPrice)
    IN
    IF Falsy(entryPrice) \/ entryPrice <= 0 \/ entryPrice >= PriceScale THEN "price"
    ELSE IF normalizedPrice < MinEntryPrice \/ normalizedPrice > MaxEntryPrice THEN "band"
    ELSE IF st.consecutiveLosses >= MaxConsecutiveLosses THEN "breaker"
    ELSE IF statePosition(st) # UNDEFINED THEN "duplicate"
    ELSE IF st.dailyLoss >= DailyLossLimit THEN "dailyLoss"
    ELSE IF st.lastStopLossTime # 0 /\ t - st.lastStopLossTime < CooldownMinutes * 60 THEN "cooldown"
    ELSE IF st.lastEntryTime # 0 /\ t - st.lastEntryTime < EntryCooldownSeconds THEN "debounce"
    ELSE IF in.trend = "FALLING" /\ in.side = "UP" THEN "trend"
    ELSE IF in.trend = "RISING" /\ in.side = "DOWN" THEN "trend"
    ELSE "pass"

(* Kelly sizing (lines 349-392).  With p in percent and the price in       *)
(* 1/PriceScale, f = p - q/b has numerator KellyNum (in percent times      *)
(* 1/PriceScale) over the denominator PriceScale - price.                  *)
KellyNum(p, normalizedPrice) ==
    p * (PriceScale - normalizedPrice) - (100 - p) * normalizedPrice

KellySize(bankroll, p, normalizedPrice) ==
    (bankroll * (KellyNum(p, normalizedPrice) \div 100))
        \div (KellyFractionInv * (PriceScale - normalizedPrice))

TradeAmount(bankroll, probability, normalizedPrice) ==
    LET baseUnit == MaxBet IN
    IF ~Falsy(probability) THEN
        IF KellyNum(probability, normalizedPrice) > 0 THEN
            LET size0 == KellySize(bankroll, probability, normalizedPrice)
                size1 == IF size0 < MinBet THEN MinBet ELSE size0
                size2 == IF size1 > baseUnit THEN baseUnit ELSE size1
            IN IF size2 > bankroll THEN bankroll ELSE size2
        ELSE MinBet
    ELSE baseUnit

----------------------------------------------------------------------------
(* update() as a coroutine.  A call co is [pc, in, t, snap, cur, ret,      *)
(* tradeAmount]: where it stands, its arguments, its Date.now(), the rest  *)
(* of the array copy its current loop iterates, the position whose close   *)
(* awaits logTrade, the loop to return to, and the sized trade amount.     *)
(* Advance runs the synchronous code from co.pc to the next await of       *)
(* logTrade ("awaitClose", "awaitOpen") or to the end ("done").            *)

NewCall(in, t) ==
    [ pc |-> "start", in |-> in, t |-> t, snap |-> <<>>,
      cur |-> <<>>, ret |-> "", tradeAmount |-> 0 ]

Suspended(co) == co.pc \in {"awaitClose", "awaitOpen"}

(* An arming that sets the flag of every open position, not only of the   *)
(* one whose ROI reached the trigger.                                      *)
ArmPositionEveryPosition(W, id) ==
    saveState([W EXCEPT !.state.positions =
        [i \in DOMAIN @ |-> [@[i] EXCEPT !.hitBreakevenTrigger = TRUE]]])

ArmPosition(W, id) ==
    saveState([W EXCEPT !.state.positions =
        [i \in DOMAIN @ |-> IF @[i].id = id
                            THEN [@[i] EXCEPT !.hitBreakevenTrigger = TRUE]
                            ELSE @[i]]])

(* An open that debits the trade amount but not the entry fee.             *)
OpenPositionFeeNotDebited(W, in, t, tradeAmount) ==
    LET entryPrice      == SidePrice(in.side, in)
        normalizedPrice == NormalizeEntryPrice(entryPrice)
        shares          == (tradeAmount * PriceScale) \div normalizedPrice
        fee             == (tradeAmount * FeePct) \div 100
        totalCost       == tradeAmount + fee
        pos             == [ id |-> W.aux.nextId,
                             marketSlug |-> in.market,
                             side |-> in.side,
                             entryPrice |-> normalizedPrice,
                             amount |-> totalCost,
                             shares |-> shares,
                             entryTime |-> t,
                             hitBreakevenTrigger |-> FALSE ]
        W1 == [W EXCEPT !.state.balance = @ - tradeAmount,
                        !.state.positions = Append(@, pos),
                        !.state.lastEntryTime = t,
                        !.aux.nextId = @ + 1,
                        !.aux.sumOpens = @ + totalCost]
    IN logTrade(W1, Reason("OPEN", ""), in.side, entryPrice, tradeAmount, shares,
                NULL, in.market, fee, pos, 0 - totalCost)

OpenPosition(W, in, t, tradeAmount) ==
    LET entryPrice      == SidePrice(in.side, in)
        normalizedPrice == NormalizeEntryPrice(entryPrice)
        shares          == (tradeAmount * PriceScale) \div normalizedPrice
        fee             == (tradeAmount * FeePct) \div 100
        totalCost       == tradeAmount + fee
        pos             == [ id |-> W.aux.nextId,
                             marketSlug |-> in.market,
                             side |-> in.side,
                             entryPrice |-> normalizedPrice,
                             amount |-> totalCost,
                             shares |-> shares,
                             entryTime |-> t,
                             hitBreakevenTrigger |-> FALSE ]
        W1 == [W EXCEPT !.state.balance = @ - totalCost,
                        !.state.positions = Append(@, pos),
                        !.state.lastEntryTime = t,
                        !.aux.nextId = @ + 1,
                        !.aux.sumOpens = @ + totalCost]
    IN logTrade(W1, Reason("OPEN", ""), in.side, entryPrice, tradeAmount, shares,
                NULL, in.market, fee, pos, 0 - totalCost)

(* A capacity check that admits one position too many.                     *)
CanOpenOffByOne(st, tradeAmount) ==
    Len(st.positions) <= MaxConcurrentPositions /\ st.balance >= tradeAmount

CanOpen(st, tradeAmount) ==
    Len(st.positions) < MaxConcurrentPositions /\ st.balance >= tradeAmount

(* getBlockingReason(side, trend) at time t (lines 445-479): the reason    *)
(* shown for a blocked entry, "null" when it reports none.                 *)
getBlockingReason(st, side, trend, t) ==
    IF st.dailyLoss >= DailyLossLimit THEN "Daily Loss Limit"
    ELSE IF st.lastEntryTime # 0 /\ t - st.lastEntryTime < EntryCooldownSeconds
        THEN "Entry Debounce"
    ELSE IF trend = "FALLING" /\ side = "UP" THEN "Trend (Falling vs Up)"
    ELSE IF trend = "RISING" /\ side = "DOWN" THEN "Trend (Rising vs Down)"
    ELSE IF st.balance < MinBet THEN "Insufficient Balance"
    ELSE "null"

(* A selection that takes the positions of every market.                  *)
MarketPositionsAnyMarket(st, marketSlug) == st.positions

MarketPositions(st, marketSlug) ==
    SelectSeq(st.positions, LAMBDA p : p.marketSlug = marketSlug)

(* A flip test that never finds positions to close.                        *)
FlipPositionsNever(st, in) == <<>>

FlipPositions(st, in) ==
    LET marketPositions == MarketPositions(st, in.market) IN
    IF Len(marketPositions) > 0 /\ marketPositions[1].side # in.side
    THEN marketPositions ELSE <<>>

RECURSIVE Advance(_, _)
Advance(W, co) ==
    LET in == co.in
        t  == co.t
        Goto(pc) == [co EXCEPT !.pc = pc]
        Await(W1, pos, ret) ==
            [W |-> W1, co |-> [co EXCEPT !.pc = "awaitClose", !.cur = <<pos>>,
                                         !.ret = ret, !.snap = Tail(co.snap)]]
    IN
    CASE co.pc = "start" ->
            IF in.market = "null" \/ ~in.rec
            THEN [W |-> W, co |-> Goto("done")]
            ELSE Advance(resetDailyLossIfNeeded(W, t), Goto("checkResolution"))
      [] co.pc = "checkResolution" ->
            IF Len(W.state.positions) = 0 \/ ~ResolutionApplies(in)
            THEN Advance(W, Goto("checkExitConditions"))
            ELSE Advance(W, [co EXCEPT !.pc = "resolution", !.snap = W.state.positions])
      [] co.pc = "resolution" ->
            IF co.snap = <<>> THEN Advance(W, Goto("checkExitConditions"))
            ELSE LET pos == Head(co.snap) IN
                 IF pos.marketSlug # in.market
                 THEN Advance(W, [co EXCEPT !.snap = Tail(@)])
                 ELSE Await(closePositionBegin(W, pos, ExpiryPayout(pos.side, in),
                                               ExpiryReason, t), pos, "resolution")
      [] co.pc = "checkExitConditions" ->
            IF Len(W.state.positions) = 0
            THEN Advance(W, Goto("handleEntrySignal"))
            ELSE Advance(W, [co EXCEPT !.pc = "exit", !.snap = W.state.positions])
      [] co.pc = "exit" ->
            IF co.snap = <<>> THEN Advance(W, Goto("handleEntrySignal"))
            ELSE LET pos0 == Head(co.snap)
                     d    == ExitDecision(pos0, in, t)
                     W1   == IF d.arm THEN ArmPosition(W, pos0.id) ELSE W
                     pos  == IF d.arm THEN [pos0 EXCEPT !.hitBreakevenTrigger = TRUE]
                             ELSE pos0
                 IN IF d.close
                    THEN Await(closePositionBegin(W1, pos, d.price, d.reason, t), pos, "exit")
                    ELSE Advance(W1, [co EXCEPT !.snap = Tail(@)])
      [] co.pc = "handleEntrySignal" ->
            IF in.action # "ENTER" \/ EntryGate(W.state, in, t) # "pass"
            THEN [W |-> W, co |-> Goto("done")]
            ELSE Advance(W, [co EXCEPT
                    !.pc = "flip",
                    !.tradeAmount = TradeAmount(W.state.balance, in.probability,
                                        NormalizeEntryPrice(SidePrice(in.side, in))),
                    !.snap = FlipPositions(W.state, in)])
      [] co.pc = "flip" ->
            IF co.snap = <<>> THEN Advance(W, Goto("open"))
            ELSE LET pos == Head(co.snap) IN
                 Await(closePositionBegin(W, pos, SidePrice(in.side, in),
                                          Reason("FLIP_CLOSE", ""), t), pos, "flip")
      [] co.pc = "open" ->
            IF CanOpen(W.state, co.tradeAmount)
            THEN [W |-> OpenPosition(W, in, t, co.tradeAmount), co |-> Goto("awaitOpen")]
            ELSE [W |-> W, co |-> Goto("done")]
      [] OTHER -> [W |-> W, co |-> co]

(* The continuation of a suspended call when logPaperTradeToDb settles:    *)
(* a rejection propagates out of update(); a resolution runs the rest.     *)
Resume(W, co, ok) ==
    IF ~ok THEN [W |-> W, co |-> [co EXCEPT !.pc = "threw"]]
    ELSE IF co.pc = "awaitClose"
         THEN Advance(closePositionEnd(W, co.cur[1], co.t),
                      [co EXCEPT !.pc = co.ret, !.cur = <<>>])
    ELSE IF co.pc = "awaitOpen"
         THEN [W |-> saveState(W), co |-> [co EXCEPT !.pc = "done"]]
    ELSE [W |-> W, co |-> co]

(* A whole update() with no other call in between.  failAt is the number   *)
(* of the logTrade call that rejects (0: none does).                       *)
RECURSIVE Settle(_, _, _)
Settle(r, failAt, n) ==
    IF Suspended(r.co)
    THEN Settle(Resume(r.W, r.co, n # failAt), failAt, n + 1)
    ELSE r

RunUpdate(W, in, t, failAt) == Settle(Advance(W, NewCall(in, t)), failAt, 1)

----------------------------------------------------------------------------
(* The arguments of update(): { rec, prices, market, trend }.              *)
(* rec is the presence of the recommendation object; its fields and the    *)
(* prices are flattened into the record.                                   *)

Markets == {"m1", "m2"}

(* CONFIG.paper.initialBalance: Number(process.env.PAPER_BALANCE) || 100   *)
InitialBalances == {10 * MoneyScale, 100 * MoneyScale}

MkInput(market, rec, pp, action, side, probability, trend, isExpired, strike, spot, timeLeft) ==
    [ market |-> market, rec |-> rec, up |-> pp[1], down |-> pp[2],
      action |-> action, side |-> side, probability |-> probability,
      trend |-> trend, isExpired |-> isExpired, strikePrice |-> strike,
      spotPrice |-> spot, timeLeftMin |-> timeLeft ]

NoInput ==
    MkInput("null", FALSE, <<NULL, NULL>>, "HOLD", "null", NULL, "NEUTRAL",
            FALSE, NULL, NULL, UNDEFINED)

(* A tick is the time since the previous tick and the arguments.           *)
Tick(dt, in) == [dt |-> dt, in |-> in]

(* An ENTER for a side at quotes pp, with or without a model probability.  *)
Enter(dt, m, side, pp, probability) ==
    Tick(dt, MkInput(m, TRUE, pp, "ENTER", side, probability, "NEUTRAL",
                     FALSE, NULL, NULL, 100))

(* An ENTER for a side at quotes pp on a tick with the given trend label.  *)
EnterTrend(dt, m, side, pp, trend) ==
    Tick(dt, MkInput(m, TRUE, pp, "ENTER", side, NULL, trend,
                     FALSE, NULL, NULL, 100))

(* No signal: only the exits are evaluated, with timeLeft tenths of a      *)
(* minute left in the market.                                              *)
Hold(dt, m, pp, timeLeft) ==
    Tick(dt, MkInput(m, TRUE, pp, "HOLD", "null", NULL, "NEUTRAL",
                     FALSE, NULL, NULL, timeLeft))

(* The market has expired with the given strike and spot.                  *)
Expired(dt, m, strike, spot) ==
    Tick(dt, MkInput(m, TRUE, <<5000, 5000>>, "HOLD", "null", NULL, "NEUTRAL",
                     TRUE, strike, spot, 0))

(* A tick flagged isExpired at quotes pp, with or without an ENTER, whose  *)
(* strike or spot may be missing.                                          *)
ExpiredWith(dt, m, pp, action, side, strike, spot) ==
    Tick(dt, MkInput(m, TRUE, pp, action, side, NULL, "NEUTRAL",
                     TRUE, strike, spot, 0))

ShortStep == 10     \* less than the grace period and the entry debounce
LongStep == 120     \* the stop-loss cooldown has passed

(* The ticks of the main specification: entries on either side and on a    *)
(* second market, quotes that arm, stop out, half-time and take profit,    *)
(* a missing quote, a tick on the next UTC day and both outcomes of an     *)
(* expiry.                                                                 *)
MainTicks ==
    { Enter(LongStep, "m1", "UP", <<5000, 5000>>, NULL),
      Enter(ShortStep, "m1", "UP", <<5000, 5000>>, NULL),
      Enter(LongStep, "m1", "DOWN", <<5000, 5000>>, NULL),
      Enter(LongStep, "m1", "UP", <<5000, 5000>>, 65),
      Enter(LongStep, "m2", "UP", <<5000, 5000>>, NULL),
      Hold(ShortStep, "m1", <<6500, 3500>>, 100),
      Hold(LongStep, "m1", <<4500, 5500>>, 50),
      Hold(LongStep, "m1", <<3000, 7000>>, 100),
      Hold(LongStep, "m1", <<9500, 500>>, 100),
      Hold(LongStep, "m1", <<NULL, 5000>>, 100),
      Hold(LongStep, "m2", <<5000, 5000>>, 100),
      Hold(SecondsPerDay, "m1", <<5000, 5000>>, 100),
      Expired(LongStep, "m1", 100, 101),
      Expired(LongStep, "m1", 100, 99) }

----------------------------------------------------------------------------
(* The state machine.                                                      *)

World == [state |-> state, disk |-> disk, log |-> <<>>, aux |-> [aux EXCEPT !.saves = 0]]

Init ==
    /\ \E b \in InitialBalances : state = [defaultState EXCEPT !.balance = b]
    /\ disk = <<>>
    /\ now = StartTime
    /\ input = NoInput
    /\ log = <<>>
    /\ calls = <<>>
    /\ outcome = "none"
    /\ aux = [ nextId |-> 1, saves |-> 0, sumOpens |-> 0, sumCloses |-> 0,
               closed |-> <<>>, ticks |-> 0, initialBalance |-> state.balance ]

Commit(r, in, t) ==
    /\ state' = r.W.state
    /\ disk' = r.W.disk
    /\ log' = r.W.log
    /\ aux' = [r.W.aux EXCEPT !.ticks = @ + 1]
    /\ now' = t
    /\ input' = in

(* update(in), run to completion before the next tick starts; ticks is   *)
(* the set of ticks the driver may deliver.                                *)
update(ticks) ==
    /\ calls = <<>>
    /\ aux.ticks < MaxTicks
    /\ \E tk \in ticks :
         LET r == RunUpdate(World, tk.in, now + tk.dt, 0) IN
         /\ Commit(r, tk.in, now + tk.dt)
         /\ outcome' = "returned"
         /\ calls' = <<>>

Next == update(MainTicks)

Spec == Init /\ [][Next]_vars

----------------------------------------------------------------------------
(* Runs in which logPaperTradeToDb may reject.  logTrade has no handler,   *)
(* so the rejection leaves closePosition / handleEntrySignal at the await  *)
(* and propagates out of update().                                         *)

FailTicks ==
    { Enter(LongStep, "m1", "UP", <<5000, 5000>>, NULL),
      Enter(LongStep, "m1", "DOWN", <<5000, 5000>>, NULL),
      Hold(LongStep, "m1", <<9500, 500>>, 100),
      Hold(LongStep, "m1", <<3000, 7000>>, 100),
      Expired(LongStep, "m1", 100, 101) }

(* update(in) in which the failAt-th call of logTrade rejects.             *)
updateRejected(ticks) ==
    /\ calls = <<>>
    /\ aux.ticks < MaxTicks
    /\ \E tk \in ticks, failAt \in 1..MaxConcurrentPositions :
         LET r == RunUpdate(World, tk.in, now + tk.dt, failAt) IN
         /\ r.co.pc = "threw"
         /\ Commit(r, tk.in, now + tk.dt)
         /\ outcome' = "threw"
         /\ calls' = <<>>

NextFail == update(FailTicks) \/ updateRejected(FailTicks)

SpecFail == Init /\ [][NextFail]_vars

----------------------------------------------------------------------------
(* Runs in which update() is called again while earlier calls are          *)
(* suspended at the await of logTrade.  The code between two awaits runs   *)
(* without interruption; a suspended call resumes when its                 *)
(* logPaperTradeToDb promise resolves.                                     *)

AsyncTicks ==
    { Enter(LongStep, "m1", "UP", <<5000, 5000>>, NULL),
      Hold(LongStep, "m1", <<9500, 500>>, 100),
      Hold(LongStep, "m1", <<3000, 7000>>, 100),
      Expired(LongStep, "m1", 100, 101) }

(* Every reference to a position object sees its current flag: a copy      *)
(* held by a suspended call is the object that is in state.positions.      *)
SamePositionObject(st, p) ==
    IF \E i \in DOMAIN st.positions : st.positions[i].id = p.id
    THEN CHOOSE q \in {st.positions[i] : i \in DOMAIN st.positions} : q.id = p.id
    ELSE p

ShareObjects(st, co) ==
    [co EXCEPT !.snap = [i \in DOMAIN @ |-> SamePositionObject(st, @[i])],
               !.cur  = [i \in DOMAIN @ |-> SamePositionObject(st, @[i])]]

Remove(s, i) == SubSeq(s, 1, i - 1) \o SubSeq(s, i + 1, Len(s))

CommitAsync(r, others) ==
    LET cs == IF Suspended(r.co) THEN Append(others, r.co) ELSE others IN
    /\ state' = r.W.state
    /\ disk' = r.W.disk
    /\ log' = r.W.log
    /\ calls' = [i \in DOMAIN cs |-> ShareObjects(r.W.state, cs[i])]
    /\ outcome' = IF cs = <<>> THEN "returned" ELSE "pending"

(* update(in) is called, possibly while other calls are suspended, and     *)
(* runs to its first await or to its end.                                  *)
updateStart(ticks) ==
    /\ Len(calls) < MaxCalls
    /\ aux.ticks < MaxTicks
    /\ \E tk \in ticks :
         LET W0 == [ state |-> state, disk |-> disk,
                     log |-> IF calls = <<>> THEN <<>> ELSE log,
                     aux |-> IF calls = <<>> THEN [aux EXCEPT !.saves = 0] ELSE aux ]
             r  == Advance(W0, NewCall(tk.in, now + tk.dt))
         IN /\ CommitAsync(r, calls)
            /\ aux' = [r.W.aux EXCEPT !.ticks = @ + 1]
            /\ now' = now + tk.dt
            /\ input' = tk.in

(* The logTrade promise of a suspended call resolves and the call runs to  *)
(* its next await or to its end.                                           *)
updateResume ==
    \E i \in DOMAIN calls :
        LET W0 == [state |-> state, disk |-> disk, log |-> log, aux |-> aux]
            r  == Resume(W0, [calls[i] EXCEPT !.t = now], TRUE)
        IN /\ CommitAsync(r, Remove(calls, i))
           /\ aux' = r.W.aux
           /\ UNCHANGED <<now, input>>

NextAsync == updateStart(AsyncTicks) \/ updateResume

SpecAsync == Init /\ [][NextAsync]_vars

----------------------------------------------------------------------------
(* Runs that exercise the entry path: quotes that differ between the two   *)
(* sides, a quote on the cents scale, a signal without a side, missing     *)
(* and zero quotes, a quote outside the price band and an entry inside     *)
(* the debounce window.                                                    *)

EntryTicks ==
    { Enter(LongStep, "m1", "UP", <<5000, 5000>>, NULL),
      Enter(ShortStep, "m1", "UP", <<5000, 5000>>, NULL),
      Enter(LongStep, "m1", "DOWN", <<5500, 4500>>, NULL),
      Enter(LongStep, "m1", "UP", <<500000, 500000>>, NULL),
      Enter(LongStep, "m1", "null", <<5000, 5000>>, NULL),
      Enter(LongStep, "m1", "UP", <<NULL, 5000>>, NULL),
      Enter(LongStep, "m1", "UP", <<UNDEFINED, 5000>>, NULL),
      Enter(LongStep, "m1", "DOWN", <<5000, 0>>, NULL),
      Enter(LongStep, "m1", "UP", <<7000, 3000>>, NULL),
      Hold(LongStep, "m1", <<NULL, 500>>, 100),
      Hold(LongStep, "m1", <<9500, UNDEFINED>>, 50) }

NextEntry == update(EntryTicks)

SpecEntry == Init /\ [][NextEntry]_vars

----------------------------------------------------------------------------
(* Runs that exercise the exits: ticks one polling interval apart, so      *)
(* that a position is armed, protected or stopped inside the stop-loss     *)
(* grace period, and expiries with the spot above, below and at the        *)
(* strike.                                                                 *)

PollIntervalSeconds == 1           \* pollIntervalMs: 1_000

ExitTicks ==
    { Enter(LongStep, "m1", "UP", <<5000, 5000>>, NULL),
      Enter(LongStep, "m1", "DOWN", <<5000, 5000>>, NULL),
      Enter(LongStep, "m2", "UP", <<5000, 5000>>, NULL),
      Hold(PollIntervalSeconds, "m1", <<6500, 3500>>, 100),
      Hold(PollIntervalSeconds, "m1", <<4500, 5500>>, 100),
      Hold(PollIntervalSeconds, "m1", <<3000, 7000>>, 100),
      Hold(ShortStep, "m1", <<3000, 7000>>, 100),
      Hold(LongStep, "m1", <<3000, 7000>>, 100),
      Expired(LongStep, "m1", 100, 101),
      Expired(LongStep, "m1", 100, 99),
      Expired(LongStep, "m1", 100, 100) }

NextExit == update(ExitTicks)

SpecExit == Init /\ [][NextExit]_vars

----------------------------------------------------------------------------
(* Runs that exercise the lower triggers of the exit cascade: quotes       *)
(* below the entry price with little, much, null and no remaining time,    *)
(* inside and after the grace period, and quotes that reach the early      *)
(* take-profit price or ROI on either scale.                               *)

CascadeTicks ==
    { Enter(LongStep, "m1", "UP", <<5000, 5000>>, NULL),
      Enter(LongStep, "m1", "DOWN", <<5500, 4500>>, NULL),
      Hold(PollIntervalSeconds, "m1", <<3000, 7000>>, 50),
      Hold(LongStep, "m1", <<4500, 5500>>, 50),
      Hold(LongStep, "m1", <<4500, 5500>>, NULL),
      Hold(LongStep, "m1", <<4500, 5500>>, UNDEFINED),
      Hold(LongStep, "m1", <<4500, 5500>>, 100),
      Hold(LongStep, "m1", <<6500, 3500>>, 100),
      Hold(LongStep, "m1", <<9000, 1000>>, 100),
      Hold(LongStep, "m1", <<9200, 800>>, 100),
      Hold(LongStep, "m1", <<920000, 80000>>, 100),
      Hold(LongStep, "m2", <<9500, 500>>, 100) }

NextCascade == update(CascadeTicks)

SpecCascade == Init /\ [][NextCascade]_vars

----------------------------------------------------------------------------
(* Runs that start from a ledger read back from the state file: loadState  *)
(* overlays the stored fields on the defaults, so the day's dailyLoss may  *)
(* already stand just below or at the limit when the first tick arrives.   *)

LoadedDailyLosses == {0, DailyLossLimit - 400, DailyLossLimit}

InitLoaded ==
    /\ \E dl \in LoadedDailyLosses :
          state = [defaultState EXCEPT !.balance = 100 * MoneyScale, !.dailyLoss = dl]
    /\ disk = <<>>
    /\ now = StartTime
    /\ input = NoInput
    /\ log = <<>>
    /\ calls = <<>>
    /\ outcome = "none"
    /\ aux = [ nextId |-> 1, saves |-> 0, sumOpens |-> 0, sumCloses |-> 0,
               closed |-> <<>>, ticks |-> 0, initialBalance |-> state.balance ]

LoadedTicks ==
    { Enter(LongStep, "m1", "UP", <<5000, 5000>>, NULL),
      Enter(LongStep, "m1", "DOWN", <<5000, 5000>>, NULL),
      Enter(LongStep, "m2", "UP", <<5000, 5000>>, NULL),
      Hold(LongStep, "m1", <<3000, 7000>>, 100),
      Hold(LongStep, "m1", <<9500, 500>>, 100),
      Hold(SecondsPerDay, "m1", <<5000, 5000>>, 100) }

NextLoaded == update(LoadedTicks)

SpecLoaded == InitLoaded /\ [][NextLoaded]_vars

----------------------------------------------------------------------------
(* Runs that exercise the trend filter: signals with and against a         *)
(* FALLING or RISING trend, with no trend label, and on a second market.   *)

TrendTicks ==
    { EnterTrend(LongStep, "m1", "UP", <<5000, 5000>>, "NEUTRAL"),
      EnterTrend(LongStep, "m1", "DOWN", <<5000, 5000>>, "NEUTRAL"),
      EnterTrend(LongStep, "m1", "UP", <<5000, 5000>>, "FALLING"),
      EnterTrend(LongStep, "m1", "DOWN", <<5000, 5000>>, "FALLING"),
      EnterTrend(LongStep, "m1", "UP", <<5000, 5000>>, "RISING"),
      EnterTrend(LongStep, "m1", "DOWN", <<5000, 5000>>, "RISING"),
      EnterTrend(LongStep, "m1", "UP", <<5000, 5000>>, "null"),
      EnterTrend(LongStep, "m2", "DOWN", <<5000, 5000>>, "RISING"),
      Hold(LongStep, "m1", <<3000, 7000>>, 100) }

NextTrend == update(TrendTicks)

SpecTrend == Init /\ [][NextTrend]_vars

----------------------------------------------------------------------------
(* Runs that exercise the price band and the share count: quotes at and    *)
(* just outside both ends of the band, far outside it, on the cents        *)
(* scale, and Kelly-sized amounts at prices that do not divide them.       *)

BandTicks ==
    { Enter(LongStep, "m1", "UP", <<MinEntryPrice, MaxEntryPrice>>, NULL),
      Enter(LongStep, "m1", "DOWN", <<MinEntryPrice, MaxEntryPrice>>, NULL),
      Enter(LongStep, "m1", "UP", <<MinEntryPrice - 1, MaxEntryPrice + 1>>, NULL),
      Enter(LongStep, "m1", "DOWN", <<MinEntryPrice - 1, MaxEntryPrice + 1>>, NULL),
      Enter(LongStep, "m1", "DOWN", <<5500, 4500>>, 65),
      Enter(LongStep, "m2", "UP", <<4700, 5300>>, 80),
      Enter(LongStep, "m1", "UP", <<7000, 3000>>, NULL),
      Enter(LongStep, "m1", "UP", <<450000, 550000>>, NULL),
      Hold(LongStep, "m1", <<3000, 7000>>, 100) }

NextBand == update(BandTicks)

SpecBand == Init /\ [][NextBand]_vars

----------------------------------------------------------------------------
(* Runs that exercise the daily reset: ticks within the same UTC day, one  *)
(* day later, and on the same day of the following month, around closes    *)
(* that leave dailyLoss away from zero.                                    *)

MonthStep == 31 * SecondsPerDay

ResetTicks ==
    { Enter(LongStep, "m1", "UP", <<5000, 5000>>, NULL),
      Hold(LongStep, "m1", <<3000, 7000>>, 100),
      Hold(LongStep, "m1", <<9500, 500>>, 100),
      Hold(LongStep, "m1", <<5000, 5000>>, 100),
      Hold(SecondsPerDay, "m1", <<5000, 5000>>, 100),
      Hold(SecondsPerDay, "m1", <<3000, 7000>>, 100),
      Hold(MonthStep, "m1", <<5000, 5000>>, 100) }

NextReset == update(ResetTicks)

SpecReset == Init /\ [][NextReset]_vars

----------------------------------------------------------------------------
(* Runs that exercise the order of the steps of update(): ticks on which   *)
(* several steps act (a new UTC day with a stop loss, an expiry with an    *)
(* exit-triggering quote, an expiry with an ENTER, a flip), and expired    *)
(* ticks whose strike or spot is missing.                                  *)

OrderTicks ==
    { Enter(LongStep, "m1", "UP", <<5000, 5000>>, NULL),
      Enter(LongStep, "m1", "DOWN", <<5000, 5000>>, NULL),
      Enter(LongStep, "m2", "UP", <<5000, 5000>>, NULL),
      Hold(LongStep, "m1", <<3000, 7000>>, 100),
      Hold(SecondsPerDay, "m1", <<3000, 7000>>, 100),
      ExpiredWith(LongStep, "m1", <<3000, 7000>>, "HOLD", "null", 100, 101),
      ExpiredWith(LongStep, "m1", <<5000, 5000>>, "ENTER", "DOWN", 100, 101),
      ExpiredWith(LongStep, "m1", <<3000, 7000>>, "HOLD", "null", NULL, 101),
      ExpiredWith(LongStep, "m1", <<5000, 5000>>, "HOLD", "null", 100, NULL),
      ExpiredWith(LongStep, "m1", <<5000, 5000>>, "ENTER", "DOWN", NULL, NULL) }

NextOrder == update(OrderTicks)

SpecOrder == Init /\ [][NextOrder]_vars

----------------------------------------------------------------------------
(* Runs that trip the circuit breaker and go on: entries on the same and   *)
(* on the following UTC day, on either market and side, after a streak     *)
(* of losses has emptied the ledger.                                       *)

BreakerTicks ==
    { Enter(LongStep, "m1", "UP", <<5000, 5000>>, NULL),
      Enter(LongStep, "m1", "DOWN", <<5000, 5000>>, NULL),
      Enter(LongStep, "m2", "UP", <<5000, 5000>>, NULL),
      Enter(SecondsPerDay, "m1", "UP", <<5000, 5000>>, NULL),
      Hold(LongStep, "m1", <<3000, 7000>>, 100),
      Hold(LongStep, "m1", <<9500, 500>>, 100),
      Hold(SecondsPerDay, "m1", <<5000, 5000>>, 100) }

NextBreaker == update(BreakerTicks)

SpecBreaker == Init /\ [][NextBreaker]_vars

----------------------------------------------------------------------------
(* The Kelly sizing of handleEntrySignal as a function of the balance,     *)
(* the model probability and the normalized entry price.  The balance is   *)
(* whatever PAPER_BALANCE sets or trading has left; the price has passed   *)
(* the price guard, so it lies in [minEntryPrice, maxEntryPrice].          *)

SizingBalances == {0, 3 * MoneyScale, 5 * MoneyScale, 8 * MoneyScale,
                   10 * MoneyScale, 50 * MoneyScale, 100 * MoneyScale,
                   200 * MoneyScale}

Probabilities == {NULL, 0, 10, 30, 45, 50, 55, 65, 80, 95, 99}

BandPrices == {MinEntryPrice, 4500, 5000, 5500, MaxEntryPrice}

InitSizing ==
    /\ \E b \in SizingBalances : state = [defaultState EXCEPT !.balance = b]
    /\ disk = <<>>
    /\ now = StartTime
    /\ input = NoInput
    /\ log = <<>>
    /\ calls = <<>>
    /\ outcome = "none"
    /\ aux = [ nextId |-> 1, saves |-> 0, sumOpens |-> 0, sumCloses |-> 0,
               closed |-> <<>>, ticks |-> 0, initialBalance |-> state.balance ]

(* The sizing step alone: the row records the bankroll, the inputs and     *)
(* the trade amount computed.                                              *)
sizing ==
    /\ outcome = "none"
    /\ \E p \in Probabilities, x \in BandPrices :
         /\ input' = [NoInput EXCEPT !.action = "ENTER", !.side = "UP",
                                     !.up = x, !.probability = p]
         /\ log' = << [ action |-> Reason("SIZE", ""),
                        bankroll |-> state.balance,
                        probability |-> p,
                        price |-> x,
                        amount |-> TradeAmount(state.balance, p,
                                               NormalizeEntryPrice(x)) ] >>
    /\ outcome' = "returned"
    /\ UNCHANGED <<state, disk, now, calls, aux>>

NextSizing == sizing

SpecSizing == InitSizing /\ [][NextSizing]_vars

----------------------------------------------------------------------------
(* The price normalization of checkExitConditions, getUnrealizedPnL and    *)
(* closePosition as a function of the quote.                               *)

QuoteStep == 500                   \* quotes are taken 0.05 apart
MaxQuote == 2000000                \* up to a quote of 200

Quotes ==
    {k * QuoteStep : k \in 0..(MaxQuote \div QuoteStep)}
        \cup {NULL, UNDEFINED, CentsThreshold, CentsThreshold + 1, MaxQuote}

(* The normalization alone: the row records the quote, its normalized      *)
(* value and the normalized value of that.                                 *)
normalize ==
    /\ outcome = "none"
    /\ \E x \in Quotes :
         /\ input' = [NoInput EXCEPT !.up = x]
         /\ log' = << [ action |-> Reason("NORMALIZE", ""),
                        price |-> x,
                        normalized |-> NormalizePrice(x),
                        twice |-> NormalizePrice(NormalizePrice(x)) ] >>
    /\ outcome' = "returned"
    /\ UNCHANGED <<state, disk, now, calls, aux>>

NextNormalize == normalize

SpecNormalize == Init /\ [][NextNormalize]_vars

----------------------------------------------------------------------------
(* Vocabulary of the properties.                                           *)

Positions == {state.positions[i] : i \in DOMAIN state.positions}

Rows == {log[i] : i \in DOMAIN log}

OpenRows == {r \in Rows : r.action.head = "OPEN"}

CloseRows == {r \in Rows : r.action.head # "OPEN"}

ExpiryRows == {r \in Rows : r.action.head = "EXPIRY"}

FlipRows == {r \in Rows : r.action.head = "FLIP_CLOSE"}

(* Closes made by checkExitConditions.                                     *)
ExitRows == CloseRows \ (ExpiryRows \cup FlipRows)

(* The tick delivered arguments that update() acts on.                     *)
TickRan == outcome = "returned" /\ input.market # "null" /\ input.rec

(* The quote of the position's own side is present and puts its ROI at or  *)
(* below zero.                                                             *)
QuotedRoiNonPositive(pos) ==
    LET price == SidePrice(pos.side, input) IN
    /\ price # NULL /\ price # UNDEFINED
    /\ RoiPctLE(NormalizePrice(price), pos.entryPrice, 0)

----------------------------------------------------------------------------
(* C1: the balance never goes negative: an ENTER whose total cost (trade   *)
(* amount plus entry fee) exceeds the balance opens nothing.               *)
C1_BalanceNeverNegative ==
    /\ state.balance >= 0
    /\ \A r \in OpenRows : r.balance >= 0

(* C2: no two open positions have the same (marketSlug, side).             *)
C2_OnePositionPerMarketSide ==
    \A i, j \in DOMAIN state.positions :
        i # j => <<state.positions[i].marketSlug, state.positions[i].side>>
                    # <<state.positions[j].marketSlug, state.positions[j].side>>

(* C3: the number of open positions never exceeds maxConcurrentPositions.  *)
C3_AtMostMaxConcurrent == Len(state.positions) <= MaxConcurrentPositions

(* C3 witness: the ledger is full and an ENTER that passes every filter    *)
(* has just been turned away.                                              *)
C3_Witness ==
    /\ TickRan /\ input.action = "ENTER" /\ log = <<>>
    /\ Len(state.positions) = MaxConcurrentPositions
    /\ EntryGate(state, input, now) = "pass"
    /\ state.balance >= MaxBet

(* C4 as stated: an armed position is never closed below its entry price   *)
(* while its ROI is at or below zero, whatever closes it.                  *)
C4_BreakevenLockAnyClose ==
    \A r \in CloseRows :
        (r.pos.hitBreakevenTrigger /\ QuotedRoiNonPositive(r.pos))
            => NormalizePrice(r.price) >= r.pos.entryPrice

(* C4 amended: an armed position closed by the exit evaluator (stop loss,  *)
(* breakeven protection, half-time, take profit) while its ROI is at or    *)
(* below zero is closed at an exit price no lower than its entry price.    *)
C4_BreakevenLockExitEvaluator ==
    \A r \in ExitRows :
        (r.pos.hitBreakevenTrigger /\ QuotedRoiNonPositive(r.pos))
            => NormalizePrice(r.price) >= r.pos.entryPrice

(* C4 witness: the exit evaluator has closed an armed position whose       *)
(* quote has fallen below its entry price.                                 *)
C4_Witness ==
    \E r \in ExitRows :
        /\ r.pos.hitBreakevenTrigger /\ QuotedRoiNonPositive(r.pos)
        /\ NormalizePrice(SidePrice(r.pos.side, input)) < r.pos.entryPrice

(* C5: an expiry settlement charges no fee: the credit is shares * payout  *)
(* with payout 0 or 1, and pnl is that credit minus the cost basis.        *)
C5_SettlementIsFeeFree ==
    \A r \in ExpiryRows :
        /\ r.fee = 0
        /\ r.price \in {0, PriceScale}
        /\ r.credit = (r.shares * r.price) \div PriceScale
        /\ r.pnl = r.credit - r.pos.amount

(* C6: no position is appended while consecutiveLosses has reached         *)
(* maxConsecutiveLosses.  The open is the last mutation of update(), so    *)
(* the ledger after the tick holds the value at the moment of the append.  *)
C6_NoOpenWhileBreakerTripped ==
    (outcome = "returned" /\ OpenRows # {})
        => state.consecutiveLosses < MaxConsecutiveLosses

(* C9: a position still open when the tick's market is a new market        *)
(* instance is force-settled: after a tick for market M no position of     *)
(* another market remains open.                                            *)
C9_RolloverSettles ==
    TickRan => \A p \in Positions : p.marketSlug = input.market

(* C10: the balance is the initial balance minus the cost bases of all     *)
(* opens plus the credits of all closes; an open debits                    *)
(* tradeAmount * (1 + feePct/100), a close credits                         *)
(* shares * normalizedExitPrice minus its fee, and pnl is that credit      *)
(* minus the cost basis.                                                   *)
C10_BalanceConservation ==
    /\ state.balance = aux.initialBalance - aux.sumOpens + aux.sumCloses
    /\ \A r \in OpenRows :
          /\ r.pos.amount = r.amount + (r.amount * FeePct) \div 100
          /\ r.credit = 0 - r.pos.amount
    /\ \A r \in CloseRows :
          /\ r.credit = (r.shares * NormalizePrice(r.price)) \div PriceScale - r.fee
          /\ r.pnl = r.credit - r.pos.amount
    /\ \A i \in DOMAIN log :
          /\ i > 1 => log[i].balance = log[i - 1].balance + log[i].credit
          /\ i = Len(log) => log[i].balance = state.balance

(* C10 witness: a tick that closed one position and opened another.        *)
C10_Witness == OpenRows # {} /\ CloseRows # {}

(* C7: overlapping update() calls do not interleave on the ledger: each    *)
(* position is closed, and its proceeds credited, at most once.            *)
C7_ClosedAtMostOnce ==
    \A i, j \in DOMAIN aux.closed : i # j => aux.closed[i] # aux.closed[j]

(* C8: a failure of the trade-log collaborator does not escape update()    *)
(* and never leaves a position in positions whose proceeds were credited.  *)
C8_LogFailureIsolated ==
    /\ outcome # "threw"
    /\ calls = <<>> =>
         \A p \in Positions : \A i \in DOMAIN aux.closed : aux.closed[i] # p.id

(* C11: an ENTER that opens no position leaves the ledger as              *)
(* handleEntrySignal found it; in particular it closes no position by a    *)
(* flip.                                                                   *)
C11_BlockedEntryIsNoOp ==
    (TickRan /\ input.action = "ENTER" /\ OpenRows = {}) => FlipRows = {}

(* C12: a flip closes the held position at the quote of the held           *)
(* position's own side (prices.up for a held UP, prices.down for a held    *)
(* DOWN), with reason FLIP_CLOSE, before the new side is opened.           *)
C12_FlipClosesAtHeldSidePrice ==
    /\ \A r \in FlipRows :
          /\ r.pos.side = "UP" => r.price = input.up
          /\ r.pos.side = "DOWN" => r.price = input.down
    /\ \A i, j \in DOMAIN log :
          (log[i].action.head = "FLIP_CLOSE" /\ log[j].action.head = "OPEN") => i < j

(* Rows written by the sizing step.                                        *)
SizeRows == {r \in Rows : r.action.head = "SIZE"}

(* C13: the trade amount computed by the sizing step lies in [0, balance]  *)
(* and is at most maxBet, whatever the probability (present with positive  *)
(* or non-positive Kelly fraction, or absent) and whatever the balance.    *)
C13_TradeAmountWithinBalance ==
    \A r \in SizeRows :
        /\ 0 <= r.amount
        /\ r.amount <= r.bankroll
        /\ r.amount <= MaxBet

(* An ENTER for UP or DOWN whose side is quoted on the cents scale at a    *)
(* value that normalizes into the price band.                              *)
CentsScaleEntry(in) ==
    /\ in.action = "ENTER"
    /\ in.side \in {"UP", "DOWN"}
    /\ SidePrice(in.side, in) > CentsThreshold
    /\ NormalizePrice(SidePrice(in.side, in)) >= MinEntryPrice
    /\ NormalizePrice(SidePrice(in.side, in)) <= MaxEntryPrice

(* The same arguments with both quotes on the unit scale.                  *)
OnUnitScale(in) ==
    [in EXCEPT !.up = NormalizePrice(@), !.down = NormalizePrice(@)]

(* The ledger is as handleEntrySignal found it and some filter other than  *)
(* the scale of the quote turns the signal away: a gate, or the capacity   *)
(* and balance check when there is nothing to flip.                        *)
BlockedOnUnitScale ==
    /\ OpenRows = {} /\ FlipRows = {}
    /\ \/ EntryGate(state, OnUnitScale(input), now) # "pass"
       \/ /\ FlipPositions(state, input) = <<>>
          /\ ~CanOpen(state, TradeAmount(state.balance, input.probability,
                                NormalizePrice(SidePrice(input.side, input))))

(* C14: an ENTER quoted on the cents scale whose normalized price lies in  *)
(* the band, every other gate passing, opens a position whose entryPrice   *)
(* is the quote divided by 100.                                            *)
C14_CentsScaleEntryOpens ==
    (TickRan /\ CentsScaleEntry(input)) =>
        \/ \E r \in OpenRows :
              r.pos.entryPrice = SidePrice(input.side, input) \div 100
        \/ BlockedOnUnitScale

(* C15: on a tick with isExpired true and non-null strike and spot, every  *)
(* position that was open on the tick's market is closed in that tick, an  *)
(* UP position at price 1 iff spot >= strike (else 0), a DOWN position at  *)
(* price 1 iff spot < strike (else 0).                                     *)
C15_ExpirySettlesMarket ==
    [][ ( /\ outcome' = "returned" /\ input'.market # "null" /\ input'.rec
          /\ input'.isExpired
          /\ input'.strikePrice # NULL /\ input'.spotPrice # NULL )
        => \A i \in DOMAIN state.positions :
              LET p == state.positions[i] IN
              p.marketSlug = input'.market =>
                /\ \A j \in DOMAIN state'.positions : state'.positions[j].id # p.id
                /\ \E k \in DOMAIN log' :
                      /\ log'[k].pos.id = p.id
                      /\ log'[k].action.head = "EXPIRY"
                      /\ p.side = "UP" =>
                            log'[k].price = IF input'.spotPrice >= input'.strikePrice
                                            THEN PriceScale ELSE 0
                      /\ p.side = "DOWN" =>
                            log'[k].price = IF input'.spotPrice < input'.strikePrice
                                            THEN PriceScale ELSE 0
      ]_vars

(* C15 witness: the market expired with the spot exactly at the strike     *)
(* and both of its UP positions were settled as wins.                      *)
C15_Witness ==
    /\ TickRan /\ input.isExpired /\ input.spotPrice = input.strikePrice
    /\ Cardinality(ExpiryRows) = 2
    /\ \A r \in ExpiryRows : r.pos.side = "UP" /\ r.price = PriceScale

(* The hard stop loss is due for a position held before the tick: the      *)
(* tick is for its market and does not settle it by expiry, its side is    *)
(* quoted, its ROI is at or below -stopLossRoiPct, it is not armed and     *)
(* the grace period has passed at time t.                                  *)
StopLossDue(p, in, t) ==
    /\ p.marketSlug = in.market
    /\ ~ResolutionApplies(in)
    /\ SidePrice(p.side, in) # NULL /\ SidePrice(p.side, in) # UNDEFINED
    /\ RoiPctLE(NormalizePrice(SidePrice(p.side, in)), p.entryPrice, 0 - StopLossRoiPct)
    /\ ~p.hitBreakevenTrigger
    /\ t - p.entryTime >= StopLossGracePeriodSeconds

(* The position was closed by row r at the quote of its side, for a        *)
(* reason starting with STOP_LOSS.                                         *)
StoppedOutBy(r, p, in) ==
    /\ r.pos.id = p.id
    /\ ReasonIncludesStopLoss(r.action)
    /\ r.price = SidePrice(p.side, in)

(* C16 as stated: the exit evaluator closes no position for a reason       *)
(* starting with STOP_LOSS while now - entryTime is below the grace        *)
(* period; on the first tick on which the hard stop loss is due, the       *)
(* position is closed at the current price for a reason starting with      *)
(* STOP_LOSS.                                                              *)
C16_NoStopLossReasonInGrace ==
    [][ TickRan' =>
          /\ \A r \in ExitRows' :
                ReasonIncludesStopLoss(r.action)
                    => now' - r.pos.entryTime >= StopLossGracePeriodSeconds
          /\ \A i \in DOMAIN state.positions :
                StopLossDue(state.positions[i], input', now')
                    => \E r \in ExitRows' : StoppedOutBy(r, state.positions[i], input')
      ]_vars

(* The reasons of the hard stop loss (lines 136-146).                      *)
HardStopReason(reason) ==
    \/ reason.head = "STOP_LOSS"
    \/ reason = Reason("STOP_LOSS_BREAKEVEN", " (Locked Entry)")

(* C16 amended: the hard stop loss (STOP_LOSS, STOP_LOSS_BREAKEVEN         *)
(* (Locked Entry)) closes no position while now - entryTime is below the   *)
(* grace period; a close inside the grace period for a reason starting     *)
(* with STOP_LOSS is the breakeven protection of an armed position whose   *)
(* ROI is above -stopLossRoiPct; once the hard stop loss is due the        *)
(* position is closed in that tick at the current price with reason        *)
(* STOP_LOSS.                                                              *)
C16_HardStopLossGracePeriod ==
    [][ TickRan' =>
          /\ \A r \in ExitRows' :
                (now' - r.pos.entryTime < StopLossGracePeriodSeconds) =>
                    /\ ~HardStopReason(r.action)
                    /\ ReasonIncludesStopLoss(r.action) =>
                          /\ r.action = Reason("STOP_LOSS_BREAKEVEN", " (Protection)")
                          /\ r.pos.hitBreakevenTrigger
                          /\ ~RoiPctLE(NormalizePrice(SidePrice(r.pos.side, input')),
                                       r.pos.entryPrice, 0 - StopLossRoiPct)
          /\ \A i \in DOMAIN state.positions :
                StopLossDue(state.positions[i], input', now')
                    => \E r \in ExitRows' :
                          /\ StoppedOutBy(r, state.positions[i], input')
                          /\ r.action.head = "STOP_LOSS"
      ]_vars

(* C16 witness: a position whose stop loss was held back by the grace      *)
(* period on an earlier tick has been stopped out at the current price on  *)
(* the first tick after the grace period.                                  *)
C16_Witness ==
    /\ TickRan
    /\ \E r \in ExitRows :
          /\ r.action.head = "STOP_LOSS"
          /\ r.price = SidePrice(r.pos.side, input)
          /\ now - r.pos.entryTime >= StopLossGracePeriodSeconds
          /\ now - r.pos.entryTime - ShortStep < StopLossGracePeriodSeconds

(* The value of consecutiveLosses after the rows of one update(), starting *)
(* from v: an open leaves it, a losing close adds one, a winning close     *)
(* sets it to 0.                                                           *)
RECURSIVE StreakAfter(_, _)
StreakAfter(v, rows) ==
    IF rows = <<>> THEN v
    ELSE LET r == Head(rows) IN
         StreakAfter(IF r.action.head = "OPEN" THEN v
                     ELSE IF r.pnl < 0 THEN v + 1
                     ELSE 0,
                     Tail(rows))

(* No close of the update() broke even exactly (pnl = 0).                  *)
NoBreakEvenClose(rows) ==
    \A i \in DOMAIN rows : rows[i].action.head = "OPEN" \/ rows[i].pnl # 0

(* C17: consecutiveLosses is set to 0 by every close with pnl > 0 and      *)
(* incremented by exactly 1 by every close with pnl < 0; nothing else      *)
(* (an open, the arming of a position, the daily reset, a tick that does   *)
(* nothing) changes it.                                                    *)
C17_ConsecutiveLossesByCloses ==
    [][ (outcome' = "returned" /\ NoBreakEvenClose(log'))
            => state'.consecutiveLosses = StreakAfter(state.consecutiveLosses, log')
      ]_vars

(* C17 witness: a winning close has just reset a losing streak.            *)
C17_Witness ==
    /\ \E r \in CloseRows : r.pnl > 0
    /\ state.consecutiveLosses = 0
    /\ Len(state.recentResults) >= 2
    /\ state.recentResults[Len(state.recentResults)] = "WIN"
    /\ state.recentResults[Len(state.recentResults) - 1] = "LOSS"

(* Rows written by the normalization step.                                 *)
NormalizeRows == {r \in Rows : r.action.head = "NORMALIZE"}

(* The largest quote of the cents scale: 100.                              *)
CentsScaleMax == 100 * PriceScale

(* C18 as stated: the normalization returns x unchanged for every quote    *)
(* x <= 1.05, returns a value in (0, 1] for every quote x > 1.05, and      *)
(* applied to its own result changes nothing.                              *)
C18_NormalizationAnyQuote ==
    \A r \in NormalizeRows :
        /\ r.price <= CentsThreshold => r.normalized = r.price
        /\ r.price > CentsThreshold =>
              (0 < r.normalized /\ r.normalized <= PriceScale)
        /\ r.twice = r.normalized

(* C18 amended: the normalization returns x unchanged for every quote      *)
(* x <= 1.05, returns a value in (0, 1] for every quote 1.05 < x <= 100,   *)
(* and applied to its own result changes nothing for every quote           *)
(* x <= 100.                                                               *)
C18_NormalizationCentsRange ==
    \A r \in NormalizeRows :
        /\ r.price <= CentsThreshold => r.normalized = r.price
        /\ (r.price > CentsThreshold /\ r.price <= CentsScaleMax) =>
              (0 < r.normalized /\ r.normalized <= PriceScale)
        /\ r.price <= CentsScaleMax => r.twice = r.normalized

(* C18 witness: the quote 100 of the cents scale was normalized to 1.      *)
C18_Witness ==
    \E r \in NormalizeRows :
        r.price = CentsScaleMax /\ r.normalized = PriceScale /\ r.twice = PriceScale

(* C19: an ENTER whose side is null (or anything but UP or DOWN) opens     *)
(* nothing and closes nothing, and every open position has side UP or      *)
(* DOWN.                                                                   *)
C19_SidelessEntryIgnored ==
    /\ \A p \in Positions : p.side \in {"UP", "DOWN"}
    /\ (TickRan /\ input.action = "ENTER" /\ input.side \notin {"UP", "DOWN"})
          => (OpenRows = {} /\ FlipRows = {})

(* The quote of a side is missing: null or undefined.                      *)
Missing(price) == price = NULL \/ price = UNDEFINED

(* The ledger without what the daily reset and the arming of a position    *)
(* write.                                                                  *)
LedgerCore(st) ==
    [st EXCEPT !.dailyLoss = 0, !.lastDailyReset = 0,
               !.positions = [i \in DOMAIN @ |->
                                [@[i] EXCEPT !.hitBreakevenTrigger = FALSE]]]

(* C20: on a tick where the quote of a position's side is null or          *)
(* undefined the exit evaluator neither arms nor closes that position; an  *)
(* ENTER whose side quote is null, undefined or 0 opens nothing, closes    *)
(* nothing and leaves the ledger as the exits of the tick left it;         *)
(* update() returns without throwing.                                      *)
C20_MissingPriceNoDecision ==
    [][ (input'.market # "null" /\ input'.rec) =>
          /\ outcome' = "returned"
          /\ \A i \in DOMAIN state.positions :
                LET p == state.positions[i] IN
                Missing(SidePrice(p.side, input')) =>
                    /\ \A r \in ExitRows' : r.pos.id # p.id
                    /\ \A k \in DOMAIN log' :
                          log'[k].pos.id = p.id => log'[k].pos = p
                    /\ \A j \in DOMAIN state'.positions :
                          state'.positions[j].id = p.id => state'.positions[j] = p
          /\ (input'.action = "ENTER" /\ Falsy(SidePrice(input'.side, input'))) =>
                /\ OpenRows' = {} /\ FlipRows' = {}
                /\ state'.lastEntryTime = state.lastEntryTime
                /\ log' = <<>> => LedgerCore(state') = LedgerCore(state)
      ]_vars

(* C20 witness: a tick that left the quote of a held position's side out   *)
(* and carried an ENTER for a side without a usable quote; the position    *)
(* is still open and nothing was traded.                                   *)
C20_Witness ==
    /\ TickRan /\ input.action = "ENTER" /\ log = <<>>
    /\ Falsy(SidePrice(input.side, input))
    /\ \E p \in Positions :
          p.marketSlug = input.market /\ Missing(SidePrice(p.side, input))

(* The entry fee inside a position's cost basis:                           *)
(* amount = tradeAmount * (1 + feePct/100).                                *)
EntryFeeOf(pos) == pos.amount - (pos.amount * 100) \div (100 + FeePct)

(* C21: after the exit evaluation of a tick no position of the tick's      *)
(* market with a quoted side is left open armed with ROI% <= 0; the exit   *)
(* evaluator closes such a position at its entry price, with pnl equal to  *)
(* minus the entry and exit fees, whether or not ROI% has reached          *)
(* -stopLossRoiPct and whether or not the grace period has elapsed.        *)
C21_BreakevenProtection ==
    TickRan =>
      /\ \A p \in Positions :
            (p.marketSlug = input.market /\ p.hitBreakevenTrigger)
                => ~QuotedRoiNonPositive(p)
      /\ \A r \in ExitRows :
            (r.pos.hitBreakevenTrigger /\ QuotedRoiNonPositive(r.pos)) =>
                /\ r.price = r.pos.entryPrice
                /\ Abs(r.pnl + r.fee + EntryFeeOf(r.pos)) <= 1

(* The remaining time of the tick is a number at or below 7.5 minutes.     *)
HalfTime(in) ==
    /\ in.timeLeftMin # NULL /\ in.timeLeftMin # UNDEFINED
    /\ in.timeLeftMin <= HalfTimeThresholdTenths

(* The quote of the position's side is present and puts its ROI below 0.   *)
QuotedRoiNegative(pos) ==
    LET price == SidePrice(pos.side, input) IN
    /\ ~(price = NULL \/ price = UNDEFINED)
    /\ RoiPctLT(NormalizePrice(price), pos.entryPrice, 0)

(* C22: after the exit evaluation of a tick with timeLeftMin <= 7.5 no     *)
(* position of the tick's market with a quoted side and ROI% < 0 is left   *)
(* open, also inside the stop-loss grace period; a close for the           *)
(* half-time rule is at the current price.                                 *)
C22_HalfTimeRule ==
    (TickRan /\ HalfTime(input)) =>
      /\ \A p \in Positions :
            p.marketSlug = input.market => ~QuotedRoiNegative(p)
      /\ \A r \in ExitRows :
            r.action.head = "HALF_TIME_EXIT" => r.price = SidePrice(r.pos.side, input)

(* C23: on a tick whose remaining time is null or absent the half-time     *)
(* rule is skipped: no position is closed with a HALF_TIME_EXIT reason.    *)
C23_NoHalfTimeWithoutTime ==
    (TickRan /\ (input.timeLeftMin = NULL \/ input.timeLeftMin = UNDEFINED))
        => \A r \in ExitRows : r.action.head # "HALF_TIME_EXIT"

(* The quote of the position's side is present and reaches the early       *)
(* take-profit price or ROI.                                               *)
TakeProfitDue(pos) ==
    LET price == SidePrice(pos.side, input) IN
    /\ ~(price = NULL \/ price = UNDEFINED)
    /\ \/ NormalizePrice(price) >= EarlyTakeProfitPrice
       \/ RoiPctGE(NormalizePrice(price), pos.entryPrice, EarlyTakeProfitRoiPct)

(* C24: after the exit evaluation of a tick no position of the tick's      *)
(* market with a quoted side is left open at a normalized price >= 0.92    *)
(* or an ROI% >= 80; the position that reached either is closed at the     *)
(* current price in that tick.                                             *)
C24_EarlyTakeProfit ==
    TickRan =>
      /\ \A p \in Positions : p.marketSlug = input.market => ~TakeProfitDue(p)
      /\ \A r \in ExitRows :
            TakeProfitDue(r.pos) =>
                /\ r.price = SidePrice(r.pos.side, input)
                /\ r.action.head \in {"TAKE_PROFIT_92", "TAKE_PROFIT_ROI_80"}

(* A position was closed on its ROI alone, below the take-profit price.    *)
C24_Witness ==
    /\ TickRan
    /\ \E r \in ExitRows :
          /\ r.action.head = "TAKE_PROFIT_ROI_80"
          /\ NormalizePrice(r.price) < EarlyTakeProfitPrice
    /\ \E i \in DOMAIN state.recentResults : state.recentResults[i] = "WIN"

(* C25: no position is opened while dailyLoss >= dailyLossLimit, dailyLoss *)
(* being the ledger value when the position is appended, also after a      *)
(* flip close of the same tick.                                            *)
C25_NoOpenAtDailyLossLimit ==
    (outcome = "returned" /\ OpenRows # {}) => state.dailyLoss < DailyLossLimit

(* The sum of pnl over the closes of a trade log.                          *)
RECURSIVE SumPnl(_)
SumPnl(rows) ==
    IF rows = <<>> THEN 0
    ELSE (IF Head(rows).action.head = "OPEN" THEN 0 ELSE Head(rows).pnl) + SumPnl(Tail(rows))

(* C26: dailyLoss is minus the sum of pnl over the closes since the last   *)
(* daily reset: a tick leaves it at its value before the tick, or at 0     *)
(* when the tick reset it, less the pnl of every close of the tick,        *)
(* winning or losing.                                                      *)
C26_NetDailyLoss ==
    [][ state'.dailyLoss =
            (IF state'.lastDailyReset # state.lastDailyReset THEN 0 ELSE state.dailyLoss)
                - SumPnl(log') ]_vars

(* Net wins since the reset: dailyLoss is negative after a winning close.  *)
C26_Witness ==
    /\ TickRan
    /\ \E r \in CloseRows : r.pnl > 0
    /\ state.dailyLoss < 0

(* A losing close of the log was made for a stop loss.                     *)
StopLossRows == {r \in CloseRows : r.pnl < 0 /\ ReasonIncludesStopLoss(r.action)}

C28_EntryDebounce ==
    [][ /\ OpenRows' # {} =>
              /\ state.lastEntryTime = 0 \/ now' - state.lastEntryTime >= EntryCooldownSeconds
              /\ state'.lastEntryTime = now'
        /\ OpenRows' = {} => state'.lastEntryTime = state.lastEntryTime
        /\ \A i, j \in DOMAIN state'.positions :
              i < j => state'.positions[j].entryTime - state'.positions[i].entryTime
                           >= EntryCooldownSeconds ]_vars

(* An ENTER that passed every earlier filter was refused inside the        *)
(* debounce that followed an open.                                         *)
C28_Witness ==
    /\ TickRan /\ input.action = "ENTER"
    /\ Positions # {}
    /\ EntryGate(state, input, now) = "debounce"
    /\ log = <<>>

(* The signal's side runs against the tick's trend.                        *)
TrendBlocked(in) ==
    \/ in.trend = "FALLING" /\ in.side = "UP"
    \/ in.trend = "RISING" /\ in.side = "DOWN"

(* C29: no UP position is opened on a FALLING tick and no DOWN position    *)
(* on a RISING tick; a trend-blocked ENTER opposite to a held position     *)
(* does not close the held position either.                                *)
C29_TrendFilter ==
    TickRan =>
      /\ \A r \in OpenRows :
            /\ ~(input.trend = "FALLING" /\ r.side = "UP")
            /\ ~(input.trend = "RISING" /\ r.side = "DOWN")
      /\ (input.action = "ENTER" /\ TrendBlocked(input))
            => (OpenRows = {} /\ FlipRows = {})

(* A trend-blocked ENTER arrived opposite to a position held on the        *)
(* market, which is still held.                                            *)
C29_Witness ==
    /\ TickRan /\ input.action = "ENTER" /\ TrendBlocked(input)
    /\ EntryGate(state, input, now) = "trend"
    /\ \E p \in Positions : p.marketSlug = input.market /\ p.side # input.side
    /\ log = <<>>

(* The trade amount before the fee, recovered from the cost basis.         *)
PreFeeAmount(pos) == (pos.amount * 100) \div (100 + FeePct)

(* C30: every position opened has a stored entryPrice within               *)
(* [minEntryPrice, maxEntryPrice], hence in (0, 1), and shares times       *)
(* entryPrice is the pre-fee trade amount costBasis / (1 + feePct/100),    *)
(* up to one unit of shares and one unit of money.                         *)
C30_PriceBand ==
    \A p \in Positions \cup {r.pos : r \in OpenRows} :
        /\ MinEntryPrice <= p.entryPrice /\ p.entryPrice <= MaxEntryPrice
        /\ 0 < p.entryPrice /\ p.entryPrice < PriceScale
        /\ Abs(p.shares * p.entryPrice - PreFeeAmount(p) * PriceScale)
              <= p.entryPrice + PriceScale

(* A Kelly-sized position was opened at a price that does not divide its   *)
(* amount, next to one opened at an end of the band.                       *)
C30_Witness ==
    /\ \E r \in OpenRows :
          /\ r.amount # MaxBet
          /\ r.pos.shares * r.pos.entryPrice # r.amount * PriceScale
    /\ \E p \in Positions : p.entryPrice \in {MinEntryPrice, MaxEntryPrice}

(* The UTC calendar date of a time (year, month and day), as the number    *)
(* of whole days since time 0.                                             *)
UTCCalendarDate(t) == t \div SecondsPerDay

(* C31: a tick resets dailyLoss to 0 and lastDailyReset to now whenever    *)
(* the UTC calendar date of now differs from that of lastDailyReset, and   *)
(* the reset changes nothing when the two dates are the same; the closes   *)
(* of the tick are booked after the reset.                                 *)
C31_DailyResetOnNewDate ==
    [][ TickRan' =>
          IF UTCCalendarDate(now') # UTCCalendarDate(state.lastDailyReset)
          THEN /\ state'.lastDailyReset = now'
               /\ state'.dailyLoss = 0 - SumPnl(log')
          ELSE /\ state'.lastDailyReset = state.lastDailyReset
               /\ state'.dailyLoss = state.dailyLoss - SumPnl(log') ]_vars

(* C32: the ledger is written to the state file at most once per tick,     *)
(* and that write is made after all of the tick's mutations: the file      *)
(* then holds the ledger as the tick left it.                              *)
C32_OneWritePerTick ==
    TickRan =>
      /\ aux.saves <= 1
      /\ aux.saves = 1 => disk = <<state>>

(* An ENTER for a side on a tick with a trend, at an in-band quote, as     *)
(* handleEntrySignal would receive it in the current state.                *)
ProbeEntry(side, trend) ==
    MkInput("m1", TRUE, <<5000, 5000>>, "ENTER", side, NULL, trend,
            FALSE, NULL, NULL, 100)

(* The filter of handleEntrySignal that rejects the probe first, in gate   *)
(* order; "pass" when none does.  Capacity and balance are tested last,    *)
(* on the ledger as it stands.                                             *)
FirstFailingFilter(side, trend) ==
    LET in == ProbeEntry(side, trend)
        g  == EntryGate(state, in, now)
    IN IF g # "pass" THEN g
       ELSE IF Len(state.positions) >= MaxConcurrentPositions THEN "capacity"
       ELSE IF state.balance < TradeAmount(state.balance, NULL, 5000) THEN "balance"
       ELSE "pass"

(* The blocking reason names the filter.                                   *)
ReasonNames(reason, filter, side) ==
    \/ filter = "dailyLoss" /\ reason = "Daily Loss Limit"
    \/ filter = "debounce" /\ reason = "Entry Debounce"
    \/ filter = "trend" /\ side = "UP" /\ reason = "Trend (Falling vs Up)"
    \/ filter = "trend" /\ side = "DOWN" /\ reason = "Trend (Rising vs Down)"
    \/ filter = "balance" /\ reason = "Insufficient Balance"

(* C33: in every ledger state, for every side and trend, when              *)
(* handleEntrySignal would reject an ENTER at a gate filter (circuit       *)
(* breaker, daily-loss limit, stop-loss cooldown, entry debounce, trend,   *)
(* capacity, insufficient balance), getBlockingReason returns a reason     *)
(* other than null, and it names the first filter that fails.              *)
C33_BlockingReasonAgrees ==
    (outcome = "returned" /\ calls = <<>>) =>
        \A side \in {"UP", "DOWN"}, trend \in {"NEUTRAL", "FALLING", "RISING"} :
            LET f == FirstFailingFilter(side, trend)
                r == getBlockingReason(state, side, trend, now)
            IN f # "pass" => (r # "null" /\ ReasonNames(r, f, side))

(* The position with the given id as the ledger st holds it.               *)
PositionById(st, id) ==
    CHOOSE p \in {st.positions[i] : i \in DOMAIN st.positions} : p.id = id

HeldIds(st) == {st.positions[i].id : i \in DOMAIN st.positions}

(* The quote of the position's side is present on the tick in and puts     *)
(* its ROI at or above the breakeven trigger.                              *)
TriggerReached(pos, in) ==
    LET price == SidePrice(pos.side, in) IN
    /\ pos.marketSlug = in.market
    /\ ~(price = NULL \/ price = UNDEFINED)
    /\ RoiPctGE(NormalizePrice(price), pos.entryPrice, BreakevenTriggerRoiPct)

(* C34: hitBreakevenTrigger is false when a position is opened, becomes    *)
(* true only on a tick where the position's ROI% >= 30, never returns to   *)
(* false while the position is open, and changes nothing else: a tick      *)
(* that only arms closes no position and leaves balance alone.             *)
C34_BreakevenLatch ==
    [][ /\ \A r \in OpenRows' : ~r.pos.hitBreakevenTrigger
        /\ \A id \in HeldIds(state') \ HeldIds(state) :
              ~PositionById(state', id).hitBreakevenTrigger
        /\ \A id \in HeldIds(state') \cap HeldIds(state) :
              LET p == PositionById(state, id)
                  q == PositionById(state', id)
              IN /\ p.hitBreakevenTrigger => q.hitBreakevenTrigger
                 /\ (~p.hitBreakevenTrigger /\ q.hitBreakevenTrigger)
                        => TriggerReached(p, input')
                 /\ q = [p EXCEPT !.hitBreakevenTrigger = q.hitBreakevenTrigger]
        /\ \A r \in CloseRows' :
              (r.pos.id \in HeldIds(state) /\ r.pos.hitBreakevenTrigger
                  /\ ~PositionById(state, r.pos.id).hitBreakevenTrigger)
                  => TriggerReached(r.pos, input')
        /\ log' = <<>> =>
              /\ state'.balance = state.balance
              /\ HeldIds(state') = HeldIds(state) ]_vars

(* A tick armed a position at an ROI of 30% or more and closed nothing.    *)
C34_Witness ==
    /\ TickRan /\ log = <<>>
    /\ aux.saves = 1
    /\ \E p \in Positions : p.hitBreakevenTrigger /\ TriggerReached(p, input)

(* The step of update() that wrote a trade row: 1 expiry settlement,       *)
(* 2 exit trigger, 3 flip close, 4 open.                                   *)
StepOf(r) ==
    IF r.action.head = "EXPIRY" THEN 1
    ELSE IF r.action.head = "FLIP_CLOSE" THEN 3
    ELSE IF r.action.head = "OPEN" THEN 4
    ELSE 2

(* C35: within one tick the ledger is mutated in the order daily reset,    *)
(* expiry settlements, exit-trigger closes, then for an ENTER flip closes  *)
(* and the open; a position opened in the tick is not evaluated for exit   *)
(* or settlement in it, and a position settled by expiry is not evaluated  *)
(* again by the exit triggers.                                             *)
C35_TickOrder ==
    [][ TickRan' =>
          /\ \A i, j \in DOMAIN log' : i < j => StepOf(log'[i]) <= StepOf(log'[j])
          /\ \A i, j \in DOMAIN log' :
                (i # j /\ StepOf(log'[i]) # 4 /\ StepOf(log'[j]) # 4)
                    => log'[i].pos.id # log'[j].pos.id
          /\ \A r \in CloseRows' : r.pos.id \in HeldIds(state)
          /\ \A r \in OpenRows' :
                /\ r.pos.id \notin HeldIds(state)
                /\ r.pos.id \in HeldIds(state')
          /\ (OpenRows' \cup FlipRows') # {} => input'.action = "ENTER"
          /\ state'.lastDailyReset # state.lastDailyReset
                => state'.dailyLoss = 0 - SumPnl(log') ]_vars

(* One tick settled a position by expiry and then opened a new one on an   *)
(* ENTER; the new position is held and the settled one is gone.            *)
C35_Witness ==
    /\ TickRan /\ input.isExpired
    /\ Len(log) = 2
    /\ log[1].action.head = "EXPIRY" /\ log[2].action.head = "OPEN"
    /\ log[2].pos.id \in HeldIds(state) /\ log[1].pos.id \notin HeldIds(state)

(* C36: in every state reached from the default ledger by sequential       *)
(* ticks, all open positions on one market have the same side: an UP and   *)
(* a DOWN position on one marketSlug never coexist.                        *)
C36_OneSidePerMarket ==
    \A p, q \in Positions : p.marketSlug = q.marketSlug => p.side = q.side

(* An ENTER for the other side closed the two positions stacked on the     *)
(* market and opened the new side.                                         *)
C36_Witness ==
    /\ TickRan /\ input.action = "ENTER"
    /\ Cardinality(FlipRows) = 2
    /\ \E r \in OpenRows : r.pos \in Positions /\ r.side = input.side
    /\ \A r \in FlipRows : r.pos.side # input.side

(* The circuit breaker is tripped and the ledger holds no position.        *)
BreakerTrippedFlat(st) ==
    st.consecutiveLosses >= MaxConsecutiveLosses /\ st.positions = <<>>

(* C37: the circuit breaker is absorbing: from a state with                *)
(* consecutiveLosses >= maxConsecutiveLosses and no open position, no      *)
(* tick opens a position and the state after it is again such a state,     *)
(* whatever the signal and however many UTC days pass.                     *)
C37_BreakerAbsorbing ==
    [][ BreakerTrippedFlat(state) =>
          /\ OpenRows' = {}
          /\ BreakerTrippedFlat(state')
          /\ state'.consecutiveLosses = state.consecutiveLosses ]_vars

(* With the breaker tripped and no position held, an ENTER that every      *)
(* other filter admits arrived on a new UTC day: the day was reset and    *)
(* nothing was opened.                                                     *)
C37_Witness ==
    /\ TickRan /\ input.action = "ENTER"
    /\ BreakerTrippedFlat(state)
    /\ state.lastDailyReset = now /\ state.dailyLoss = 0
    /\ EntryGate(state, input, now) = "breaker"
    /\ log = <<>>

BreakevenRows == {r \in ExitRows : r.action.head = "STOP_LOSS_BREAKEVEN"}

(* C38: with feePct > 0 every breakeven close (exit at the entry price,    *)
(* reason STOP_LOSS_BREAKEVEN) has pnl < 0 and is booked as a loss: it     *)
(* appends LOSS to recentResults, increments consecutiveLosses, raises     *)
(* dailyLoss (from 0 when the tick began a new day) and sets               *)
(* lastStopLossTime, which starts the cooldown.                            *)
C38_BreakevenCloseIsLoss ==
    [][ /\ \A r \in BreakevenRows' :
              /\ r.price = r.pos.entryPrice
              /\ r.pnl < 0
              /\ state'.lastStopLossTime = now'
        /\ (Len(log') = 1 /\ BreakevenRows' # {}) =>
              /\ state'.recentResults =
                    LastN(Append(state.recentResults, "LOSS"), RecentResultsKept)
              /\ state'.consecutiveLosses = state.consecutiveLosses + 1
              /\ LET before == IF state'.lastDailyReset # state.lastDailyReset
                                THEN 0 ELSE state.dailyLoss
                 IN /\ state'.dailyLoss > before
                    /\ state'.dailyLoss = before - log'[1].pnl
              /\ EntryGate(state', ProbeEntry("UP", "NEUTRAL"), now')
                    \in {"breaker", "cooldown"} ]_vars

(* C39: a tick for market M leaves every open position whose marketSlug    *)
(* differs from M as it was: expiry settlement, breakeven arming, exit     *)
(* triggers and flip closes touch positions on M only.                     *)
C39_OtherMarketsUntouched ==
    [][ /\ \A id \in HeldIds(state) :
              LET p == PositionById(state, id) IN
              p.marketSlug # input'.market =>
                  /\ id \in HeldIds(state')
                  /\ PositionById(state', id) = p
        /\ \A r \in CloseRows' : r.pos.marketSlug = input'.market ]_vars

(* A tick closed a position of its market while a position of another      *)
(* market was held.                                                        *)
C39_Witness ==
    /\ TickRan
    /\ CloseRows # {}
    /\ \E p \in Positions : p.marketSlug # input.market

(* The tick is flagged expired but its strike or its spot is missing.      *)
ExpiredUnresolved(in) ==
    in.isExpired /\ (in.strikePrice = NULL \/ in.spotPrice = NULL)

(* C40: on a tick with isExpired true but a null strike or a null spot     *)
(* the expiry settlement closes nothing and changes nothing; the           *)
(* positions stay open and are closed in that tick only as the exit        *)
(* triggers decide.                                                        *)
C40_UnresolvedExpirySkipped ==
    [][ (TickRan' /\ ExpiredUnresolved(input')) =>
          /\ ExpiryRows' = {}
          /\ \A id \in HeldIds(state) :
                LET p == PositionById(state, id) IN
                (\E r \in ExitRows' : r.pos.id = id) <=> ExitDecision(p, input', now').close
          /\ \A id \in HeldIds(state) :
                (id \in HeldIds(state')) \/ (\E r \in ExitRows' \cup FlipRows' : r.pos.id = id)
          /\ log' = <<>> =>
                /\ state'.balance = state.balance
                /\ HeldIds(state') = HeldIds(state) ]_vars

(* A position was held through an expired tick without a strike, and the   *)
(* tick closed and opened nothing.                                         *)
C40_Witness ==
    /\ TickRan /\ ExpiredUnresolved(input)
    /\ \E p \in Positions : p.marketSlug = input.market
    /\ log = <<>>

====
